---- MODULE Spec2Model ----
(***************************************************************************)
(* State-machine model of the test-generation pipeline                     *)
(* (src/orchestrator.py), its background-task wrapper (src/app.py), the    *)
(* durable store (src/core/database.py) and the browser discovery passes   *)
(* (src/core/browser.py).                                                  *)
(*                                                                         *)
(* One run is modelled.  Every collaborator call that can raise (durable   *)
(* store, browser, generator, file system) is a nondeterministic choice    *)
(* between success and failure.  browser_analysis is split at its await    *)
(* points (launch, navigate, structure, hover scan, one hover probe per    *)
(* candidate, popup scan, one popup probe per candidate, exit); every      *)
(* other node of the graph is one action.                                  *)
(***************************************************************************)
EXTENDS Integers, Sequences, FiniteSets, TLC

----------------------------------------------------------------------------
(* Bounds of the model *)

\* rows the test_tasks table can hold (ids 1..MaxTasks)
MaxTasks == 2
\* number of candidates the static scans of one page can return
MaxCands == 3
\* number of visible interactive elements in one page snapshot
MaxVisible == 1
\* number of visible modal-like nodes on the page
MaxModals == 1
\* matching elements of a page given to a static scan alone
MaxDoc == 52
\* seconds the wall clock can advance while feature files are written
MaxClock == 2
\* element nodes below the body of a page whose locators are computed
MaxNodes == 3

(* Configured per-pass maxima (src/core/config.py:74-75).  The shipped      *)
(* defaults are 20 and 10; the model runs with a configuration of 2 and 2  *)
(* so that a scan longer than the maximum fits in the bounds.              *)
MAX_HOVER_ELEMENTS == 2
MAX_POPUP_ELEMENTS == 2

\* texts of visible elements ("" is an element without text)
Texts == {"", "a"}
\* values of document.body.innerHTML.length
HtmlLengths == {100, 101}

----------------------------------------------------------------------------
(* Values *)

\* Python None for an Optional field: the empty tuple; Some(x) is <<x>>
None == <<>>
Some(x) == <<x>>
IsNone(o) == o = <<>>
\* dict.get(key, default) / "if not x" on an Optional list: None counts as empty
OrEmpty(o) == IF o = <<>> THEN <<>> ELSE o[1]

\* progress=None in update_task_status
NoProgress == -1

Min(a, b) == IF a < b THEN a ELSE b

\* seq[:n]
Take(seq, n) == SubSeq(seq, 1, Min(n, Len(seq)))

\* all sequences over S of length at most n
RECURSIVE SeqsUpTo(_, _)
SeqsUpTo(S, n) ==
    IF n = 0 THEN {<<>>}
    ELSE LET shorter == SeqsUpTo(S, n - 1)
         IN  shorter \cup {Append(s, x) : s \in {t \in shorter : Len(t) = n - 1}, x \in S}

\* f"{prefix}: {str(e)}": a message is the sequence of its parts
Prefixed(prefix, msg) == <<prefix>> \o msg

VARIABLES
    pc,          \* position of the run
    mode,        \* "api" (started by POST /api/generate) or "cli" (run_test_generation)
    state,       \* WorkflowState, the accumulated run state
    lastUpdate,  \* final_state of generate_tests: the last node's partial update
    trace,       \* nodes that returned, in order: whether the update said failed,
                 \* and the progress of the run state after the merge
    raised,      \* exception travelling out of a node or of generate_tests (None if none)
    selfTaskId,  \* TestGeneratorOrchestrator.task_id (0 is None)
    clientTaskId,\* task id returned to the HTTP client (0 if none)
    outcome,     \* what generate_tests gave its caller: "none", "result", "exception"
    tasks,       \* table test_tasks
    nextId,      \* next AUTOINCREMENT id of test_tasks
    domAnalysis, \* table dom_analysis: rows in insertion order
    features,    \* table generated_features: rows in insertion order
    files,       \* feature files written to the output directory
    sink,        \* messages handed to the Progress Sink, in order
    playwright,  \* Playwright driver: "none", "open", "closed"
    browser,     \* browser process: "none", "open", "closed"
    page,        \* page: "none", "open", "closed"
    exc,         \* exception travelling out of the async-with body (None if none)
    structure,   \* local page_structure of browser_analysis
    hoverFound,  \* local hover_elements of browser_analysis
    popupFound,  \* local popup_elements of browser_analysis
    cands,       \* candidates of the pass in progress (sliced to the maximum)
    idx,         \* number of loop iterations of the pass already executed
    confirmed,   \* confirmed elements of the pass in progress
    probe,       \* what the last loop iteration observed
    probeErrors, \* indices i of "Error testing ... element {i}" logged by the pass
    modals,      \* modal-like nodes currently visible on the page
    interactions, \* the hover() / click() calls the page received in this pass
    storeRaised, \* the nodes in which a call of the durable store raised
    now,         \* the wall clock, in seconds
    calls,       \* the calls of llm.generate (with the category) and of
                 \* page.goto made in the run, in order
    connections, \* ConnectionManager.active_connections: per task id "open", "none",
                 \* or "failed" (dropped by disconnect() after a send failed)
    sinkDiverged, \* an exception of a send reached its caller: the run is no
                 \* longer the run a sink without any client would have given
    clients,     \* the websocket clients of /ws/{task_id}: per task id the client
                 \* whose websocket active_connections holds (0 for none), and
                 \* per client its handler and what it was sent
    site         \* the target page: what its scans and snapshots can show

runVars == <<state, lastUpdate, trace, raised, selfTaskId, clientTaskId, outcome, mode>>
dbVars == <<tasks, nextId, domAnalysis, features>>
browserVars == <<playwright, browser, page>>
passVars == <<cands, idx, confirmed, probe, probeErrors, modals, interactions>>
localVars == <<exc, structure, hoverFound, popupFound>>
\* the pages a whole run is explored on: at most one candidate per pass
PipelineSites ==
    [nHover : 0..1, nPopup : 0..1, texts : {{"a"}}, visible : {1}, modals : {1}]
\* the pages the discovery passes are explored on: candidates for one pass
DiscoverySites ==
    {w \in [nHover : {0, 1, MaxCands}, nPopup : {0, 1, MaxCands}, texts : {Texts},
            visible : {MaxVisible}, modals : {MaxModals}] :
        w.nHover = 0 \/ w.nPopup = 0}
\* the pages the revealed-elements list is explored on: one hover candidate on
\* a page that can show one visible element more than the list may hold, and
\* one popup candidate on a small page
RevealSites ==
    {[nHover |-> 1, nPopup |-> 0, texts |-> {"", "a"}, visible |-> 6, modals |-> 1],
     [nHover |-> 0, nPopup |-> 1, texts |-> {"a"}, visible |-> 1, modals |-> 1]}
vars ==
    <<pc, runVars, dbVars, files, sink, browserVars, passVars, localVars, storeRaised,
      calls, now, connections, sinkDiverged, clients, site>>

----------------------------------------------------------------------------
(* Durable store (src/core/database.py) *)

\* Python None for current_step
NoStep == "None"

NoTask ==
    [exists |-> FALSE, status |-> "pending", progress |-> 0, current_step |-> NoStep,
     error_message |-> None, started_at |-> FALSE, completed_at |-> FALSE]

\* INSERT INTO test_tasks (..., status) VALUES (..., 'pending'); progress defaults to 0
DbCreateTask(t, id) == [t EXCEPT ![id] = [NoTask EXCEPT !.exists = TRUE]]

\* an update that writes progress 0 and no step when none is given
DbUpdateTaskStatus_resets(t, id, status, progress, current_step, error_message) ==
    IF id \notin DOMAIN t \/ ~t[id].exists THEN t
    ELSE [t EXCEPT ![id] =
            [exists |-> TRUE,
             status |-> status,
             progress |-> IF progress # NoProgress THEN progress ELSE 0,
             current_step |-> current_step,
             error_message |-> IF error_message # None THEN error_message ELSE @.error_message,
             started_at |-> IF status = "running" /\ progress = 0 THEN TRUE ELSE @.started_at,
             completed_at |-> IF ~(status = "running" /\ progress = 0)
                                 /\ status \in {"completed", "failed"}
                              THEN TRUE ELSE @.completed_at]]

\* UPDATE test_tasks SET status = ?, [progress = ?,] [current_step = ?,]
\* [error_message = ?,] [started_at | completed_at = now] WHERE id = ?
DbUpdateTaskStatus(t, id, status, progress, current_step, error_message) ==
    IF id \notin DOMAIN t \/ ~t[id].exists THEN t
    ELSE [t EXCEPT ![id] =
            [exists |-> TRUE,
             status |-> status,
             progress |-> IF progress # NoProgress THEN progress ELSE @.progress,
             current_step |-> IF current_step # NoStep THEN current_step ELSE @.current_step,
             error_message |-> IF error_message # None THEN error_message ELSE @.error_message,
             started_at |-> IF status = "running" /\ progress = 0 THEN TRUE ELSE @.started_at,
             completed_at |-> IF ~(status = "running" /\ progress = 0)
                                 /\ status \in {"completed", "failed"}
                              THEN TRUE ELSE @.completed_at]]

\* the exception a failing store call raises
DbError == <<"database error">>

\* a save_feature that replaces the rows of the table
DbSaveFeature_replace(rows, id, feature_type, feature_content) ==
    <<[task_id |-> id, feature_type |-> feature_type,
       feature_content |-> feature_content]>>

\* Database.save_feature: INSERT INTO generated_features
DbSaveFeature(rows, id, feature_type, feature_content) ==
    Append(rows, [task_id |-> id, feature_type |-> feature_type,
                  feature_content |-> feature_content])

----------------------------------------------------------------------------
(* Progress Sink (src/orchestrator.py send_ws_update, src/app.py ConnectionManager) *)

StatusEvent(id, progress) ==
    [type |-> "status", task_id |-> id, status |-> "running", progress |-> progress]
CompleteEvent(id) ==
    [type |-> "complete", task_id |-> id, status |-> "completed", progress |-> 100]
\* error events carry no progress
ErrorEvent(id, msg) ==
    [type |-> "error", task_id |-> id, status |-> "failed", progress |-> NoProgress,
     error |-> msg]

\* manager.send_update: the message is handed to the sink; a failing send is
\* caught there and never reaches the caller
ManagerSendUpdate(s, msg) == Append(s, msg)

\* send_ws_update: only when app.py has installed the manager
SendWsUpdate(s, m, msg) == IF m = "api" THEN ManagerSendUpdate(s, msg) ELSE s

----------------------------------------------------------------------------
(* Run state and graph (src/orchestrator.py) *)

\* initial_state of generate_tests
InitialState ==
    [task_id |-> 0, status |-> "pending", progress |-> 0, current_step |-> "Initializing",
     error_message |-> None, browser_initialized |-> FALSE,
     page_structure |-> None, hover_elements |-> None, popup_elements |-> None,
     hover_features |-> None, popup_features |-> None, result |-> None]

\* the graph merges a node's partial update into the run state key by key
Merge(st, upd) == [k \in DOMAIN st |-> IF k \in DOMAIN upd THEN upd[k] ELSE st[k]]

\* the partial update of every except-branch
FailedUpdate(msg) == [status |-> "failed", error_message |-> msg]

UpdateFailed(upd) == "status" \in DOMAIN upd /\ upd.status = "failed"

after_create_task(st) ==
    IF st.status = "failed" THEN "handle_error" ELSE "browser_analysis"

\* after_browser_analysis without the status guard
after_browser_analysis_unguarded(st) == "generate_hover_features"

\* after_browser_analysis treating an empty discovery result as an error
after_browser_analysis_empty_fails(st) ==
    IF st.status = "failed" \/ OrEmpty(st.hover_elements) = <<>>
    THEN "handle_error" ELSE "generate_hover_features"

after_browser_analysis(st) ==
    IF st.status = "failed" THEN "handle_error" ELSE "generate_hover_features"

after_feature_generation(st) ==
    IF st.status = "failed" THEN "handle_error" ELSE "complete_task"

\* build_workflow: the node that follows `node` for the merged state `st`
NextNode(node, st) ==
    CASE node = "create_task" -> after_create_task(st)
      [] node = "browser_analysis" -> after_browser_analysis(st)
      [] node = "generate_hover_features" -> "generate_popup_features"
      [] node = "generate_popup_features" -> after_feature_generation(st)
      [] node = "complete_task" -> "END"
      [] node = "handle_error" -> "END"

\* a node returns `upd`: merge, stream the update to generate_tests, route
NodeReturns(node, upd) ==
    /\ state' = Merge(state, upd)
    /\ lastUpdate' = Some(upd)
    /\ trace' = Append(trace, [node |-> node, failed |-> UpdateFailed(upd),
                                progress |-> state'.progress])
    /\ selfTaskId' = IF "task_id" \in DOMAIN upd /\ upd.task_id # 0
                     THEN upd.task_id ELSE selfTaskId
    /\ pc' = NextNode(node, state')
    /\ UNCHANGED <<raised, clientTaskId, outcome, mode>>

\* a node lets an exception out: the stream ends in generate_tests' handler
NodeRaises(msg) ==
    /\ raised' = msg
    /\ pc' = "raised"
    /\ UNCHANGED <<state, lastUpdate, trace, selfTaskId, clientTaskId, outcome, mode>>

(* send_json failing, as seen by the caller of ConnectionManager.send_update: *)
(* the exception is logged there and the connection dropped                 *)
ManagerSendRaises_reraise(delivered) == ~delivered

\* ConnectionManager.send_update: "except Exception: log, disconnect"
ManagerSendRaises(delivered) == FALSE

\* send_ws_update: "except Exception: logger.debug(...)" around send_update
SendWsRaises(managerRaised) == FALSE

(* The sink's side of a step.  A step hands at most one message to the      *)
(* manager (the last one of `sink`); when a connection is open for its task *)
(* id, send_json delivers it or fails (`delivered`), and a failure drops    *)
(* the connection.  The pipeline steps send through send_ws_update, the     *)
(* background task calls manager.send_update itself.                         *)
SinkSide ==
    IF Len(sink') > Len(sink) /\ connections[sink'[Len(sink')].task_id] = "open"
    THEN \E delivered \in BOOLEAN :
            LET id == sink'[Len(sink')].task_id
                managerRaised == ManagerSendRaises(delivered)
                escaped == IF pc \in {"wrapper_start", "wrapper_finish"}
                           THEN managerRaised
                           ELSE SendWsRaises(managerRaised)
            IN  /\ connections' = IF delivered THEN connections
                                  ELSE [connections EXCEPT ![id] = "failed"]
                /\ sinkDiverged' = (sinkDiverged \/ escaped)
    ELSE UNCHANGED <<connections, sinkDiverged>>

\* websocket clients that can connect
MaxClients == 2
\* messages handed to the connection manager while clients come and go
MaxUpdates == 2

\* a client that has not opened its websocket: `handler` is the position of
\* websocket_endpoint ("none", "listening" in its receive loop, "ended"),
\* `since` the number of messages sent before it connected, `received` the
\* messages (by their number) send_json delivered to it, `sendFailed`
\* whether a send_json on its websocket raised
NoClient ==
    [handler |-> "none", task_id |-> 0, since |-> 0, received |-> {}, sendFailed |-> FALSE]

\* no websocket was opened
NoClients ==
    [active_connections |-> [i \in 1..MaxTasks |-> 0],
     socket |-> [c \in 1..MaxClients |-> NoClient]]

\* nothing started yet, on one of `sites`, with the websockets `conns`
Idle(sites, conns) ==
    /\ pc = "idle"
    /\ mode = "cli"
    /\ state = InitialState
    /\ lastUpdate = None
    /\ trace = <<>>
    /\ raised = None
    /\ selfTaskId = 0
    /\ clientTaskId = 0
    /\ outcome = "none"
    /\ tasks = [i \in 1..MaxTasks |-> NoTask]
    /\ nextId = 1
    /\ domAnalysis = <<>>
    /\ features = <<>>
    /\ files = {}
    /\ sink = <<>>
    /\ playwright = "none"
    /\ browser = "none"
    /\ page = "none"
    /\ exc = None
    /\ structure = None
    /\ hoverFound = <<>>
    /\ popupFound = <<>>
    /\ cands = <<>>
    /\ idx = 0
    /\ confirmed = <<>>
    /\ probe = None
    /\ probeErrors = {}
    /\ modals = 0
    /\ interactions = <<>>
    /\ storeRaised = {}
    /\ calls = <<>>
    /\ now = 0
    /\ connections \in conns
    /\ sinkDiverged = FALSE
    /\ clients = NoClients
    /\ site \in sites

\* no client is connected
NoConnections == [i \in 1..MaxTasks |-> "none"]

Init == Idle(PipelineSites, {NoConnections})

\* POST /api/generate: create the client's task and start the background task
ApiGenerate ==
    /\ site' = site
    /\ clients' = clients
    /\ now' = now
    /\ calls' = calls
    /\ storeRaised' = storeRaised
    /\ pc = "idle"
    /\ \E dbOk \in BOOLEAN :
        IF dbOk /\ nextId <= MaxTasks
        THEN /\ tasks' = DbCreateTask(tasks, nextId)
             /\ nextId' = nextId + 1
             /\ clientTaskId' = nextId
             /\ mode' = "api"
             /\ pc' = "wrapper_start"
        ELSE \* HTTP 500, nothing started
             /\ pc' = "done"
             /\ UNCHANGED <<tasks, nextId, clientTaskId, mode>>
    /\ UNCHANGED <<state, lastUpdate, trace, raised, selfTaskId, outcome>>
    /\ UNCHANGED <<domAnalysis, features, files, sink, browserVars, passVars, localVars>>
    /\ SinkSide

\* app.run_test_generation up to the call of generate_tests
WrapperStart ==
    /\ site' = site
    /\ clients' = clients
    /\ now' = now
    /\ calls' = calls
    /\ storeRaised' = storeRaised
    /\ pc = "wrapper_start"
    /\ selfTaskId' = clientTaskId
    /\ sink' = ManagerSendUpdate(sink, StatusEvent(clientTaskId, 0))
    /\ pc' = "create_task"
    /\ UNCHANGED <<state, lastUpdate, trace, raised, clientTaskId, outcome, mode>>
    /\ UNCHANGED <<dbVars, files, browserVars, passVars, localVars>>
    /\ SinkSide

\* orchestrator.run_test_generation: no manager installed, no client task
CliRun ==
    /\ site' = site
    /\ clients' = clients
    /\ now' = now
    /\ calls' = calls
    /\ storeRaised' = storeRaised
    /\ pc = "idle"
    /\ pc' = "create_task"
    /\ UNCHANGED <<runVars, dbVars, files, sink, browserVars, passVars, localVars>>
    /\ SinkSide

\* create_task_node
CreateTask ==
    /\ site' = site
    /\ clients' = clients
    /\ now' = now
    /\ calls' = calls
    /\ pc = "create_task"
    /\ \E fail \in {"none", "create", "status", "log"} :
        LET id == nextId
            created == fail # "create" /\ nextId <= MaxTasks
            t1 == IF created THEN DbCreateTask(tasks, id) ELSE tasks
            t2 == IF created /\ fail # "status"
                  THEN DbUpdateTaskStatus(t1, id, "running", 0, "Initializing", None)
                  ELSE t1
        IN  /\ tasks' = t2
            /\ storeRaised' = IF created /\ fail = "none" THEN storeRaised
                              ELSE storeRaised \cup {"create_task"}
            /\ nextId' = IF created THEN nextId + 1 ELSE nextId
            /\ IF created /\ fail = "none"
               THEN /\ sink' = SendWsUpdate(sink, mode, StatusEvent(id, 0))
                    /\ NodeReturns("create_task",
                          [task_id |-> id, status |-> "running", progress |-> 5,
                           current_step |-> "Task created"])
               ELSE /\ sink' = sink
                    /\ NodeReturns("create_task",
                          FailedUpdate(Prefixed("Failed to create task", DbError)))
    /\ UNCHANGED <<domAnalysis, features, files, browserVars, passVars, localVars>>
    /\ SinkSide

----------------------------------------------------------------------------
(* Browser session (src/core/browser.py BrowserAutomation) *)

\* initialize(): the stages run in order and the first failing one raises;
\* `failAt` is the failing stage ("none" when all succeed).  The result is
\* <<playwright, browser, page>>.
Initialize(failAt) ==
    CASE failAt = "playwright" -> <<"none", "none", "none">>
      [] failAt = "launch" -> <<"open", "none", "none">>
      [] failAt = "page" -> <<"open", "open", "none">>
      [] failAt = "none" -> <<"open", "open", "open">>

\* one close call inside close(): skipped for a resource that was never set
CloseOne(res) == IF res = "open" THEN "closed" ELSE res

\* close(): page, browser, driver are closed in this order inside one try
\* block; the first close call that raises ends the block (the exception is
\* logged, not re-raised).  `failAt` names the call that raises.
Close(res, failAt) ==
    LET pw == res[1]
        br == res[2]
        pg == res[3]
    IN  CASE failAt = "page" /\ pg = "open" -> <<pw, br, pg>>
          [] failAt = "browser" /\ br = "open" -> <<pw, br, CloseOne(pg)>>
          [] failAt = "playwright" /\ pw = "open" -> <<pw, CloseOne(br), CloseOne(pg)>>
          [] OTHER -> <<CloseOne(pw), CloseOne(br), CloseOne(pg)>>

\* the page snapshots site `w` can show: texts of the visible interactive
\* elements, markup length
Snapshots(w) ==
    [visible_elements : SeqsUpTo(w.texts, w.visible), html_length : HtmlLengths]

\* _capture_page_state: `evaluated` is Some(snapshot) when the page evaluation
\* returned and None when it raised or timed out
CapturePageState(evaluated) ==
    IF evaluated = None THEN [visible_elements |-> <<>>, html_length |-> 0]
    ELSE evaluated[1]

\* _has_content_changed without the markup-length comparison
HasContentChanged_count_only(before, after) ==
    Len(after.visible_elements) > Len(before.visible_elements)

\* _has_content_changed
HasContentChanged(before, after) ==
    IF Len(after.visible_elements) > Len(before.visible_elements) THEN TRUE
    ELSE IF after.html_length # before.html_length THEN TRUE
    ELSE FALSE

\* the texts of a list of snapshot elements
TextsOf(elems) == {elems[i] : i \in 1..Len(elems)}

\* the elements of `elems` whose text is in `keep`, in order
RECURSIVE Filter(_, _)
Filter(elems, keep) ==
    IF elems = <<>> THEN <<>>
    ELSE (IF Head(elems) \in keep THEN <<Head(elems)>> ELSE <<>>)
         \o Filter(Tail(elems), keep)

\* _get_revealed_elements returning the whole list
GetRevealedElements_unsliced(before, after) ==
    LET before_texts == TextsOf(before.visible_elements)
        keep == {t \in TextsOf(after.visible_elements) : t \notin before_texts /\ t # ""}
    IN  Filter(after.visible_elements, keep)

\* _get_revealed_elements
GetRevealedElements(before, after) ==
    LET before_texts == TextsOf(before.visible_elements)
        keep == {t \in TextsOf(after.visible_elements) : t \notin before_texts /\ t # ""}
    IN  Take(Filter(after.visible_elements, keep), 5)

\* _count_modals: `evaluated` FALSE when the page evaluation raised
CountModals(evaluated, visible) == IF evaluated THEN visible ELSE 0

\* _get_modal_details: `evaluated` FALSE when the page evaluation raised
GetModalDetails(evaluated, described) == IF evaluated THEN described ELSE <<>>

\* one modal description (text and class are not modelled)
ModalDescriptions == [role : {"dialog"}, hasCloseButton : BOOLEAN]

----------------------------------------------------------------------------
(* browser_analysis_subgraph (src/orchestrator.py), split at its awaits *)

\* the except-branch of browser_analysis_subgraph
BrowserAnalysisFailed(msg) == FailedUpdate(Prefixed("Browser analysis error", msg))

NavigationError == <<"Failed to load URL">>
InitError == <<"browser initialization error">>

\* progress 10, then `async with BrowserAutomation(...)`: __aenter__ runs
\* initialize(); when it raises, the with-block is never entered and
\* __aexit__ is not run
BALaunch ==
    /\ site' = site
    /\ clients' = clients
    /\ now' = now
    /\ calls' = calls
    /\ pc = "browser_analysis"
    /\ \E dbOk \in BOOLEAN, failAt \in {"none", "playwright", "launch", "page"} :
        IF ~dbOk
        THEN /\ NodeReturns("browser_analysis", BrowserAnalysisFailed(DbError))
             /\ storeRaised' = storeRaised \cup {"browser_analysis"}
             /\ UNCHANGED <<tasks, sink, browserVars>>
        ELSE /\ tasks' = DbUpdateTaskStatus(tasks, state.task_id, "running", 10,
                                            "Launching browser", None)
             /\ sink' = SendWsUpdate(sink, mode, StatusEvent(state.task_id, 10))
             /\ storeRaised' = storeRaised
             /\ playwright' = Initialize(failAt)[1]
             /\ browser' = Initialize(failAt)[2]
             /\ page' = Initialize(failAt)[3]
             /\ IF failAt = "none"
                THEN /\ pc' = "ba_navigate"
                     /\ UNCHANGED runVars
                ELSE NodeReturns("browser_analysis", BrowserAnalysisFailed(InitError))
    /\ UNCHANGED <<nextId, domAnalysis, features, files, passVars, localVars>>
    /\ SinkSide

\* navigate_to_url: self.page.goto(url, wait_until='networkidle')
PageGoto == [call |-> "goto", arg |-> "url"]

\* progress 20, navigate_to_url (False on any failure), add_log
BANavigate ==
    /\ site' = site
    /\ clients' = clients
    /\ now' = now
    /\ storeRaised' = storeRaised
    /\ pc = "ba_navigate"
    /\ \E dbOk \in BOOLEAN, navOk \in BOOLEAN, logOk \in BOOLEAN :
        IF ~dbOk
        THEN /\ exc' = DbError
             /\ pc' = "ba_exit"
             /\ UNCHANGED <<tasks, sink, calls>>
        ELSE /\ tasks' = DbUpdateTaskStatus(tasks, state.task_id, "running", 20,
                                            "Loading url", None)
             /\ calls' = Append(calls, PageGoto)
             /\ sink' = SendWsUpdate(sink, mode, StatusEvent(state.task_id, 20))
             /\ IF ~navOk THEN exc' = NavigationError /\ pc' = "ba_exit"
                ELSE IF ~logOk THEN exc' = DbError /\ pc' = "ba_exit"
                ELSE exc' = exc /\ pc' = "ba_structure"
    /\ UNCHANGED <<runVars, nextId, domAnalysis, features, files, browserVars, passVars>>
    /\ UNCHANGED <<structure, hoverFound, popupFound>>
    /\ SinkSide

\* progress 30, get_page_structure ({} when it fails inside), add_log
BAStructure ==
    /\ site' = site
    /\ clients' = clients
    /\ now' = now
    /\ calls' = calls
    /\ storeRaised' = storeRaised
    /\ pc = "ba_structure"
    /\ \E dbOk \in BOOLEAN, pageOk \in BOOLEAN, logOk \in BOOLEAN :
        IF ~dbOk
        THEN /\ exc' = DbError
             /\ pc' = "ba_exit"
             /\ UNCHANGED <<tasks, sink, structure>>
        ELSE /\ tasks' = DbUpdateTaskStatus(tasks, state.task_id, "running", 30,
                                            "Analyzing page structure", None)
             /\ sink' = SendWsUpdate(sink, mode, StatusEvent(state.task_id, 30))
             /\ structure' = Some(IF pageOk THEN "structure" ELSE "empty")
             /\ IF ~logOk THEN exc' = DbError /\ pc' = "ba_exit"
                ELSE exc' = exc /\ pc' = "ba_hover_scan"
    /\ UNCHANGED <<runVars, nextId, domAnalysis, features, files, browserVars, passVars>>
    /\ UNCHANGED <<hoverFound, popupFound>>
    /\ SinkSide

\* the locators (XPaths) of the elements of a page that pass the tests of a
\* static scan, in document order, when no two elements share a locator
Candidates(n) == [i \in 1..n |-> i]

\* "if (seenElements.has(xpath)) return; seenElements.add(xpath); push":
\* the locators of `doc` in order, each at its first occurrence only
RECURSIVE FirstOccurrences(_, _)
FirstOccurrences(doc, seen) ==
    IF doc = <<>> THEN <<>>
    ELSE IF Head(doc) \in seen THEN FirstOccurrences(Tail(doc), seen)
    ELSE <<Head(doc)>> \o FirstOccurrences(Tail(doc), seen \cup {Head(doc)})

\* a probe loop over the whole scan
ProbeList_all(scan, maximum) == scan

\* "potential_hover_elements[:config.MAX_HOVER_ELEMENTS]" and
\* "potential_triggers[:config.MAX_POPUP_ELEMENTS]"
ProbeList(scan, maximum) == Take(scan, maximum)

\* a hover scan that pushes every matching element
HoverScan_no_seen(doc) == Take(doc, 50)

\* dynamic_hover_detection: hoverableElements.slice(0, 50)
HoverScan(doc) == Take(FirstOccurrences(doc, {}), 50)

\* dynamic_popup_detection: popupTriggers.slice(0, 30)
PopupScan(doc) == Take(FirstOccurrences(doc, {}), 30)

\* progress 40, then analyze_hover_elements up to its loop: the static scan
\* (when its evaluation raises the pass returns [], as for no candidate)
BAHoverScan ==
    /\ site' = site
    /\ clients' = clients
    /\ now' = now
    /\ calls' = calls
    /\ storeRaised' = storeRaised
    /\ pc = "ba_hover_scan"
    /\ \E dbOk \in BOOLEAN, scanOk \in BOOLEAN :
        IF ~dbOk
        THEN /\ scanOk
             /\ exc' = DbError
             /\ pc' = "ba_exit"
             /\ UNCHANGED <<tasks, sink, cands>>
        ELSE /\ tasks' = DbUpdateTaskStatus(tasks, state.task_id, "running", 40,
                                            "Detecting hover elements", None)
             /\ sink' = SendWsUpdate(sink, mode, StatusEvent(state.task_id, 40))
             /\ cands' = IF scanOk
                         THEN ProbeList(HoverScan(Candidates(site.nHover)), MAX_HOVER_ELEMENTS)
                         ELSE <<>>
             /\ exc' = exc
             /\ pc' = IF cands' = <<>> THEN "ba_hover_return" ELSE "ba_hover_loop"
    /\ idx' = 0
    /\ confirmed' = <<>>
    /\ probe' = None
    /\ probeErrors' = {}
    /\ interactions' = <<>>
    /\ UNCHANGED <<runVars, nextId, domAnalysis, features, files, browserVars, modals>>
    /\ UNCHANGED <<structure, hoverFound, popupFound>>
    /\ SinkSide

\* a loop handler that lets the exception go on to the handler of the pass
HoverLoopEscapes_reraise(threw) == threw

\* the handler inside the loop of analyze_hover_elements ("except Exception:
\* log, continue"): whether an exception of the loop body leaves the loop
HoverLoopEscapes(threw) == FALSE

\* the handler inside the loop of analyze_popup_elements (close attempt, continue)
PopupLoopEscapes(threw) == FALSE

\* placeholder for a snapshot that was not taken
NoSnapshot == [visible_elements |-> <<>>, html_length |-> 0]

(* One iteration of the loop of analyze_hover_elements for candidate `cand`, *)
(* `conf` being the confirmed list so far.  Inputs: `resolve` is what        *)
(* query_selector gives ("element", "none", "throws"), `beforeEv`/`afterEv`  *)
(* the page evaluations of the two snapshots (None when the evaluation       *)
(* fails), `hoverOk`/`moveOk` whether element.hover() and mouse.move()       *)
(* return.  Result: the confirmed list, what was observed, and whether an    *)
(* exception leaves the loop (the loop's own handler catches all of them).   *)
HoverIteration(cand, conf, resolve, beforeEv, hoverOk, afterEv, moveOk) ==
    LET before == CapturePageState(beforeEv)
        after == CapturePageState(afterEv)
        changed == HasContentChanged(before, after)
        base == [kind |-> "hover", cand |-> cand, resolved |-> FALSE, threw |-> FALSE,
                 interacted |-> FALSE, beforeFailed |-> FALSE, afterFailed |-> FALSE,
                 before |-> NoSnapshot, after |-> NoSnapshot, compared |-> FALSE,
                 resetAttempted |-> FALSE, reset |-> FALSE]
    IN  CASE resolve = "throws" ->
               [confirmed |-> conf, escapes |-> HoverLoopEscapes(TRUE),
                probe |-> [base EXCEPT !.threw = TRUE]]
          [] resolve = "none" ->
               [confirmed |-> conf, escapes |-> FALSE, probe |-> base]
          [] resolve = "element" /\ ~hoverOk ->
               [confirmed |-> conf, escapes |-> HoverLoopEscapes(TRUE),
                probe |-> [base EXCEPT !.resolved = TRUE, !.threw = TRUE,
                                       !.interacted = TRUE,
                                       !.beforeFailed = (beforeEv = None),
                                       !.before = before]]
          [] resolve = "element" /\ hoverOk ->
               [confirmed |-> IF changed
                              THEN Append(conf, [cand |-> cand, hover_confirmed |-> TRUE,
                                                 revealed_elements |->
                                                     GetRevealedElements(before, after)])
                              ELSE conf,
                escapes |-> HoverLoopEscapes(~moveOk),
                probe |-> [base EXCEPT !.resolved = TRUE, !.threw = ~moveOk,
                                       !.interacted = TRUE,
                                       !.beforeFailed = (beforeEv = None),
                                       !.afterFailed = (afterEv = None),
                                       !.before = before, !.after = after,
                                       !.compared = TRUE, !.resetAttempted = TRUE,
                                       !.reset = moveOk]]

\* the loop body of analyze_hover_elements for the next candidate
BAHoverProbe ==
    /\ site' = site
    /\ clients' = clients
    /\ now' = now
    /\ calls' = calls
    /\ storeRaised' = storeRaised
    /\ pc = "ba_hover_loop"
    /\ idx < Len(cands)
    /\ \E resolve \in {"element", "none", "throws"},
          beforeEv \in {None} \cup {Some(sn) : sn \in Snapshots(site)},
          hoverOk \in BOOLEAN,
          afterEv \in {None} \cup {Some(sn) : sn \in Snapshots(site)},
          moveOk \in BOOLEAN :
        \* inputs that are never read are fixed
        /\ resolve # "element" => beforeEv = None /\ hoverOk
        /\ (resolve # "element" \/ ~hoverOk) => afterEv = None /\ moveOk
        /\ LET r == HoverIteration(cands[idx + 1], confirmed, resolve, beforeEv,
                                   hoverOk, afterEv, moveOk)
           IN  /\ probe' = Some(r.probe)
               /\ probeErrors' = IF r.probe.threw THEN probeErrors \cup {idx}
                                 ELSE probeErrors
               /\ interactions' = IF r.probe.interacted
                                  THEN Append(interactions,
                                              [kind |-> "hover", cand |-> r.probe.cand])
                                  ELSE interactions
               /\ IF r.escapes
                  THEN \* the handler around the whole pass: return []
                       /\ confirmed' = <<>>
                       /\ idx' = idx
                       /\ pc' = "ba_hover_return"
                  ELSE /\ confirmed' = r.confirmed
                       /\ idx' = idx + 1
                       /\ pc' = "ba_hover_probed"
    /\ UNCHANGED <<runVars, dbVars, files, sink, browserVars, localVars, cands, modals>>
    /\ SinkSide

\* end of the loop body: the iteration's locals go out of scope
BAHoverNext ==
    /\ site' = site
    /\ clients' = clients
    /\ now' = now
    /\ calls' = calls
    /\ storeRaised' = storeRaised
    /\ pc = "ba_hover_probed"
    /\ probe' = None
    /\ pc' = IF idx < Len(cands) THEN "ba_hover_loop" ELSE "ba_hover_return"
    /\ UNCHANGED <<runVars, dbVars, files, sink, browserVars, localVars>>
    /\ UNCHANGED <<cands, idx, confirmed, probeErrors, modals, interactions>>
    /\ SinkSide

\* analyze_hover_elements returns; add_log
BAHoverReturn ==
    /\ site' = site
    /\ clients' = clients
    /\ now' = now
    /\ calls' = calls
    /\ storeRaised' = storeRaised
    /\ pc = "ba_hover_return"
    /\ hoverFound' = confirmed
    /\ \E logOk \in BOOLEAN :
        IF logOk THEN exc' = exc /\ pc' = "ba_popup_scan"
        ELSE exc' = DbError /\ pc' = "ba_exit"
    /\ UNCHANGED <<runVars, dbVars, files, sink, browserVars, passVars>>
    /\ UNCHANGED <<structure, popupFound>>
    /\ SinkSide

(* _close_any_modal with `vis` modal-like nodes visible.  `escape` is what  *)
(* pressing Escape does ("dismisses" one modal, is "ignored", or "throws"), *)
(* `button` what the first close selector that matches gives: "none"        *)
(* matches, a button whose click "dismisses" one modal, or an "other"       *)
(* element of the page (a click that throws is caught per selector and the  *)
(* next selector is tried: it counts as what that one gives).  An           *)
(* exception of the key press ends the attempt before any selector is       *)
(* tried.  Result: the modal-like nodes left visible.                        *)
CloseAnyModal(vis, escape, button) ==
    IF escape = "throws" THEN vis
    ELSE LET left == IF escape = "dismisses" /\ vis > 0 THEN vis - 1 ELSE vis
         IN  IF button = "dismisses" /\ left > 0 THEN left - 1 ELSE left

\* a close attempt without the break after the click: a second selector
\* that matches is clicked as well
CloseAnyModalSteps_no_break(escape, button) ==
    IF escape = "throws" THEN <<"press_escape">>
    ELSE IF button = "none" THEN <<"press_escape">>
    ELSE <<"press_escape", "click", "click">>

(* the page actions of _close_any_modal, in order: the key press, then the  *)
(* click on the element of the first close selector that matches and whose  *)
(* click returns ("break"); when the key press raises no selector is tried  *)
CloseAnyModalSteps(escape, button) ==
    IF escape = "throws" THEN <<"press_escape">>
    ELSE IF button = "none" THEN <<"press_escape">>
    ELSE <<"press_escape", "click">>

\* whether _close_any_modal raises: its body is inside "try: ... except: pass"
CloseAnyModalRaises(escape) == FALSE

\* a popup test that accepts an unchanged modal count
PopupAppeared_not_fewer(before_modals, after_modals, modal_details) ==
    after_modals >= before_modals \/ modal_details # <<>>

\* "if after_modals > before_modals or modal_details" in analyze_popup_elements
PopupAppeared(before_modals, after_modals, modal_details) ==
    after_modals > before_modals \/ modal_details # <<>>

(* One iteration of the loop of analyze_popup_elements for candidate `cand`. *)
(* `vis` modal-like nodes are visible when it starts, `visAfter` once the    *)
(* click was attempted; `described`                                           *)
(* is the list _get_modal_details would read after the click.  `beforeOk`,  *)
(* `afterOk`, `detailsOk` tell whether the page evaluations return,          *)
(* `clickOk` whether element.click() returns; `escape` and `button` are     *)
(* the inputs of _close_any_modal, which never raises.  Result: the confirmed list, the modal-like nodes left visible,   *)
(* what was observed, and whether an exception leaves the loop.              *)
PopupIteration(cand, conf, vis, resolve, beforeOk, clickOk, visAfter, afterOk, described, detailsOk, escape, button) ==
    LET before_modals == CountModals(beforeOk, vis)
        after_modals == CountModals(afterOk, visAfter)
        modal_details == GetModalDetails(detailsOk, described)
        appeared == PopupAppeared(before_modals, after_modals, modal_details)
        base == [kind |-> "popup", cand |-> cand, resolved |-> FALSE, threw |-> FALSE,
                 interacted |-> FALSE, beforeFailed |-> FALSE, afterFailed |-> FALSE,
                 detailsFailed |-> FALSE, before_modals |-> 0, after_modals |-> 0,
                 modal_details |-> <<>>, compared |-> FALSE, closeAttempted |-> FALSE,
                 closeSteps |-> <<>>, closeRaised |-> FALSE]
        steps == CloseAnyModalSteps(escape, button)
        closeRaises == CloseAnyModalRaises(escape)
    IN  CASE resolve = "throws" ->
               [confirmed |-> conf, escapes |-> PopupLoopEscapes(TRUE),
                modals |-> CloseAnyModal(vis, escape, button),
                probe |-> [base EXCEPT !.threw = TRUE, !.closeAttempted = TRUE,
                                       !.closeSteps = steps, !.closeRaised = closeRaises]]
          [] resolve = "none" ->
               [confirmed |-> conf, escapes |-> FALSE, modals |-> vis, probe |-> base]
          [] resolve = "element" /\ ~clickOk ->
               [confirmed |-> conf, escapes |-> PopupLoopEscapes(TRUE),
                modals |-> CloseAnyModal(visAfter, escape, button),
                probe |-> [base EXCEPT !.resolved = TRUE, !.threw = TRUE,
                                       !.interacted = TRUE, !.beforeFailed = ~beforeOk,
                                       !.before_modals = before_modals,
                                       !.closeAttempted = TRUE,
                                       !.closeSteps = steps, !.closeRaised = closeRaises]]
          [] resolve = "element" /\ clickOk ->
               [confirmed |-> IF appeared
                              THEN Append(conf, [cand |-> cand, popup_confirmed |-> TRUE,
                                                 popup_details |-> modal_details])
                              ELSE conf,
                escapes |-> FALSE,
                modals |-> IF appeared THEN CloseAnyModal(visAfter, escape, button) ELSE visAfter,
                probe |-> [base EXCEPT !.resolved = TRUE, !.interacted = TRUE,
                                       !.beforeFailed = ~beforeOk, !.afterFailed = ~afterOk,
                                       !.detailsFailed = ~detailsOk,
                                       !.before_modals = before_modals,
                                       !.after_modals = after_modals,
                                       !.modal_details = modal_details,
                                       !.compared = TRUE, !.closeAttempted = appeared,
                                       !.closeSteps = IF appeared THEN steps ELSE <<>>,
                                       !.closeRaised = appeared /\ closeRaises]]

\* progress 60, then analyze_popup_elements up to its loop: the static scan
\* (when query_selector_all or the evaluation raises the pass returns [])
BAPopupScan ==
    /\ site' = site
    /\ clients' = clients
    /\ now' = now
    /\ calls' = calls
    /\ storeRaised' = storeRaised
    /\ pc = "ba_popup_scan"
    /\ \E dbOk \in BOOLEAN, scanOk \in BOOLEAN :
        IF ~dbOk
        THEN /\ scanOk
             /\ exc' = DbError
             /\ pc' = "ba_exit"
             /\ UNCHANGED <<tasks, sink, cands, idx, confirmed, probeErrors, interactions>>
        ELSE /\ tasks' = DbUpdateTaskStatus(tasks, state.task_id, "running", 60,
                                            "Detecting popup/modal elements", None)
             /\ sink' = SendWsUpdate(sink, mode, StatusEvent(state.task_id, 60))
             /\ cands' = IF scanOk
                         THEN ProbeList(PopupScan(Candidates(site.nPopup)), MAX_POPUP_ELEMENTS)
                         ELSE <<>>
             /\ idx' = 0
             /\ confirmed' = <<>>
             /\ probeErrors' = {}
             /\ interactions' = <<>>
             /\ exc' = exc
             /\ pc' = IF cands' = <<>> THEN "ba_popup_return" ELSE "ba_popup_loop"
    /\ UNCHANGED <<runVars, nextId, domAnalysis, features, files, browserVars>>
    /\ UNCHANGED <<probe, modals, structure, hoverFound, popupFound>>
    /\ SinkSide

\* a recovery that loads the page again
PopupRecovery_reload(made) == Append(made, PageGoto)

\* the handler inside the loop of analyze_popup_elements ("Try to recover by
\* reloading if stuck"): it only calls _close_any_modal, no page load is made
PopupRecovery(made) == made

\* the loop body of analyze_popup_elements for the next candidate
BAPopupProbe ==
    /\ site' = site
    /\ clients' = clients
    /\ now' = now
    /\ storeRaised' = storeRaised
    /\ pc = "ba_popup_loop"
    /\ idx < Len(cands)
    /\ \E resolve \in {"element", "none", "throws"},
          beforeOk \in BOOLEAN, clickOk \in BOOLEAN, visAfter \in 0..site.modals,
          afterOk \in BOOLEAN, detailsOk \in BOOLEAN,
          escape \in {"dismisses", "ignored", "throws"},
          button \in {"none", "dismisses", "other"} :
        \E described \in SeqsUpTo(ModalDescriptions, visAfter) :
            \* inputs that are never read are fixed
            /\ resolve # "element" => beforeOk /\ clickOk /\ visAfter = modals
            /\ (resolve # "element" \/ ~clickOk) =>
                    afterOk /\ detailsOk /\ described = <<>>
            /\ resolve = "none" => escape = "ignored" /\ button = "none"
            /\ (resolve = "throws" /\ modals = 0) => escape = "ignored" /\ button = "none"
            /\ (resolve = "element" /\ visAfter = 0) =>
                    escape = "ignored" /\ button = "none"
            /\ (resolve = "element" /\ clickOk
                    /\ ~PopupAppeared(CountModals(beforeOk, modals),
                                      CountModals(afterOk, visAfter),
                                      GetModalDetails(detailsOk, described))) =>
                    escape = "ignored" /\ button = "none"
            \* with Escape raising no close selector is tried
            /\ escape = "throws" => button = "none"
            /\ LET r == PopupIteration(cands[idx + 1], confirmed, modals, resolve,
                                       beforeOk, clickOk, visAfter, afterOk,
                                       described, detailsOk, escape, button)
               IN  /\ probe' = Some(r.probe)
                   /\ probeErrors' = IF r.probe.threw THEN probeErrors \cup {idx}
                                     ELSE probeErrors
                   /\ modals' = r.modals
                   /\ calls' = IF r.probe.threw THEN PopupRecovery(calls) ELSE calls
                   /\ interactions' = IF r.probe.interacted
                                      THEN Append(interactions,
                                                  [kind |-> "click", cand |-> r.probe.cand])
                                      ELSE interactions
                   /\ IF r.escapes
                      THEN \* the handler around the whole pass: return []
                           /\ confirmed' = <<>>
                           /\ idx' = idx
                           /\ pc' = "ba_popup_return"
                      ELSE /\ confirmed' = r.confirmed
                           /\ idx' = idx + 1
                           /\ pc' = "ba_popup_probed"
    /\ UNCHANGED <<runVars, dbVars, files, sink, browserVars, localVars, cands>>
    /\ SinkSide

\* end of the loop body: the iteration's locals go out of scope
BAPopupNext ==
    /\ site' = site
    /\ clients' = clients
    /\ now' = now
    /\ calls' = calls
    /\ storeRaised' = storeRaised
    /\ pc = "ba_popup_probed"
    /\ probe' = None
    /\ pc' = IF idx < Len(cands) THEN "ba_popup_loop" ELSE "ba_popup_return"
    /\ UNCHANGED <<runVars, dbVars, files, sink, browserVars, localVars>>
    /\ UNCHANGED <<cands, idx, confirmed, probeErrors, modals, interactions>>
    /\ SinkSide

\* analyze_popup_elements returns; add_log; the with-block ends
BAPopupReturn ==
    /\ site' = site
    /\ clients' = clients
    /\ now' = now
    /\ calls' = calls
    /\ storeRaised' = storeRaised
    /\ pc = "ba_popup_return"
    /\ popupFound' = confirmed
    /\ \E logOk \in BOOLEAN : exc' = IF logOk THEN exc ELSE DbError
    /\ pc' = "ba_exit"
    /\ UNCHANGED <<runVars, dbVars, files, sink, browserVars, passVars>>
    /\ UNCHANGED <<structure, hoverFound>>
    /\ SinkSide

\* __aexit__ runs close() and lets a pending exception through; then either
\* the except-branch, or save_dom_analysis and the success update
BAExit ==
    /\ site' = site
    /\ clients' = clients
    /\ now' = now
    /\ calls' = calls
    /\ pc = "ba_exit"
    /\ \E closeFailAt \in {"none", "page", "browser", "playwright"}, dbOk \in BOOLEAN :
        /\ playwright' = Close(<<playwright, browser, page>>, closeFailAt)[1]
        /\ browser' = Close(<<playwright, browser, page>>, closeFailAt)[2]
        /\ page' = Close(<<playwright, browser, page>>, closeFailAt)[3]
        /\ storeRaised' = IF exc = DbError \/ ~dbOk
                          THEN storeRaised \cup {"browser_analysis"}
                          ELSE storeRaised
        /\ IF exc # None
           THEN /\ dbOk
                /\ NodeReturns("browser_analysis", BrowserAnalysisFailed(exc))
                /\ UNCHANGED domAnalysis
           ELSE IF ~dbOk
           THEN /\ NodeReturns("browser_analysis", BrowserAnalysisFailed(DbError))
                /\ UNCHANGED domAnalysis
           ELSE /\ domAnalysis' = Append(domAnalysis,
                        [task_id |-> state.task_id, hover_elements |-> hoverFound,
                         popup_elements |-> popupFound, page_structure |-> structure[1]])
                /\ NodeReturns("browser_analysis",
                        [page_structure |-> structure, hover_elements |-> Some(hoverFound),
                         popup_elements |-> Some(popupFound), browser_initialized |-> TRUE,
                         progress |-> 65, current_step |-> "Browser analysis complete"])
    \* the locals of the node and of the passes are gone, the page is closed
    /\ exc' = None
    /\ structure' = None
    /\ hoverFound' = <<>>
    /\ popupFound' = <<>>
    /\ cands' = <<>>
    /\ idx' = 0
    /\ confirmed' = <<>>
    /\ probe' = None
    /\ probeErrors' = {}
    /\ modals' = 0
    /\ interactions' = <<>>
    /\ UNCHANGED <<tasks, nextId, features, files, sink>>
    /\ SinkSide

----------------------------------------------------------------------------
(* Generation, completion and error nodes (src/orchestrator.py) *)

GeneratorError == <<"generator error">>
FileError == <<"file system error">>

\* the replies of the language model: a feature text, a reply made only of
\* user-story lines ("As a ...", "I want ...", "So that ..."), an empty reply
Replies == {"text", "story", ""}

\* _clean_gherkin_output: user-story lines and what follows them up to the
\* next Feature or Scenario line are dropped, the other lines are kept
CleanGherkinOutput(reply) == IF reply = "story" THEN "" ELSE reply

\* self.llm.generate(prompt, system_prompt) for the prompt of `category`
LlmGenerate(category) == [call |-> "generate", arg |-> category]

\* _generate_generic_hover_feature / _generate_generic_popup_feature
GenericFeature(category) ==
    IF category = "hover" THEN "generic hover feature" ELSE "generic popup feature"

\* a generator that asks the language model whatever the list holds
LlmCalled_always(elements) == TRUE

\* "if not hover_elements: return generic" / "if not popup_elements: ...":
\* self.llm.generate is reached for a non-empty list only
LlmCalled(elements) == OrEmpty(elements) # <<>>

\* GherkinGenerator.generate_*_features: the fixed generic artifact for an
\* empty (or unset) element list without calling the language model,
\* otherwise the cleaned reply of the language model (`reply`)
GenerateFeatures(category, elements, reply) ==
    IF ~LlmCalled(elements) THEN GenericFeature(category) ELSE CleanGherkinOutput(reply)

\* generate_hover_features_node returning a progress below that of discovery
HoverFeaturesUpdate_lower(content) ==
    [hover_features |-> Some([content |-> content, file |-> "hover_tests"]),
     progress |-> 60, current_step |-> "Hover features generated"]

\* the success update of generate_hover_features_node
HoverFeaturesUpdate(content) ==
    [hover_features |-> Some([content |-> content, file |-> "hover_tests"]),
     progress |-> 80, current_step |-> "Hover features generated"]

\* the success update of generate_popup_features_node
PopupFeaturesUpdate(content) ==
    [popup_features |-> Some([content |-> content, file |-> "popup_tests"]),
     progress |-> 95, current_step |-> "Popup features generated"]

\* f"hover_tests_{timestamp}.feature" / f"popup_tests_{timestamp}.feature",
\* the timestamp being datetime.now().strftime("%Y%m%d_%H%M%S"): whole seconds
FeatureFileName(category, timestamp) == <<category, timestamp>>

\* the runs that wrote the file `name` of the output directory `fs`
WritersOf(fs, name) == UNION {f.writers : f \in {g \in fs : g.name = name}}

\* save_feature_file by run `run`: filepath.write_text(content) creates the
\* file or replaces its content (`run` is the last writer, `writers` all)
SaveFeatureFile(fs, name, run, category, content) ==
    {f \in fs : f.name # name}
        \cup {[name |-> name, category |-> category, content |-> content,
                run |-> run, writers |-> WritersOf(fs, name) \cup {run}]}

(* The body shared by generate_hover_features_node and                      *)
(* generate_popup_features_node.  `failAt` names the call that raises:      *)
(* "status" update_task_status, "factory" create_gherkin_generator,         *)
(* "generate" the language model, "file" save_feature_file, "feature"       *)
(* save_feature, "log" add_log.  The except-branch calls add_log itself     *)
(* (`handlerLogOk`), outside any try.                                       *)
GenerateNode(node, category, progress, step, elements, prefix) ==
    \E failAt \in {"none", "status", "factory", "generate", "file", "feature", "log"},
       reply \in Replies, handlerLogOk \in BOOLEAN :
        LET content == GenerateFeatures(category, elements, reply)
            generatorReached == failAt \notin {"status", "factory"}
            statusDone == failAt # "status"
            fileDone == failAt \in {"none", "feature", "log"}
            featureDone == failAt \in {"none", "log"}
            cause == CASE failAt = "factory" -> GeneratorError
                       [] failAt = "generate" -> GeneratorError
                       [] failAt = "file" -> FileError
                       [] OTHER -> DbError
            update == IF category = "hover" THEN HoverFeaturesUpdate(content)
                      ELSE PopupFeaturesUpdate(content)
        IN  \* the language model is only called for a non-empty list
            /\ failAt = "generate" => LlmCalled(elements)
            /\ calls' = IF generatorReached /\ LlmCalled(elements)
                        THEN Append(calls, LlmGenerate(category)) ELSE calls
            /\ failAt = "none" => handlerLogOk
            /\ storeRaised' = IF failAt \in {"status", "feature", "log"} \/ ~handlerLogOk
                              THEN storeRaised \cup {node}
                              ELSE storeRaised
            /\ tasks' = IF statusDone
                        THEN DbUpdateTaskStatus(tasks, state.task_id, "running",
                                                progress, step, None)
                        ELSE tasks
            /\ sink' = IF statusDone
                       THEN SendWsUpdate(sink, mode, StatusEvent(state.task_id, progress))
                       ELSE sink
            /\ files' = IF fileDone
                        THEN SaveFeatureFile(files, FeatureFileName(category, now),
                                             state.task_id, category, content)
                        ELSE files
            /\ features' = IF featureDone
                           THEN DbSaveFeature(features, state.task_id, category, content)
                           ELSE features
            /\ IF failAt = "none" THEN NodeReturns(node, update)
               ELSE IF handlerLogOk
               THEN NodeReturns(node, FailedUpdate(Prefixed(prefix, cause)))
               ELSE NodeRaises(DbError)

\* generate_hover_features_node
GenerateHoverFeatures ==
    /\ site' = site
    /\ clients' = clients
    /\ now' = now
    /\ pc = "generate_hover_features"
    /\ GenerateNode("generate_hover_features", "hover", 70,
                    "Generating hover test scenarios", state.hover_elements,
                    "Hover feature generation failed")
    /\ UNCHANGED <<nextId, domAnalysis, browserVars, passVars, localVars>>
    /\ SinkSide

\* generate_popup_features_node
GeneratePopupFeatures ==
    /\ site' = site
    /\ clients' = clients
    /\ now' = now
    /\ pc = "generate_popup_features"
    /\ GenerateNode("generate_popup_features", "popup", 85,
                    "Generating popup test scenarios", state.popup_elements,
                    "Popup feature generation failed")
    /\ UNCHANGED <<nextId, domAnalysis, browserVars, passVars, localVars>>
    /\ SinkSide

\* a complete_task_node that reports an empty hover list
CompileResult_no_hover(st) ==
    [task_id |-> st.task_id, status |-> "completed",
     features |-> [hover |-> st.hover_features, popup |-> st.popup_features],
     analysis |-> [hover_elements |-> <<>>,
                   popup_elements |-> OrEmpty(st.popup_elements),
                   page_structure |-> st.page_structure]]

\* the result compiled by complete_task_node
CompileResult(st) ==
    [task_id |-> st.task_id, status |-> "completed",
     features |-> [hover |-> st.hover_features, popup |-> st.popup_features],
     analysis |-> [hover_elements |-> OrEmpty(st.hover_elements),
                   popup_elements |-> OrEmpty(st.popup_elements),
                   page_structure |-> st.page_structure]]

\* the success update of complete_task_node
CompleteUpdate(st) ==
    [status |-> "completed", progress |-> 100,
     current_step |-> "Test generation completed", result |-> Some(CompileResult(st))]

\* complete_task_node
CompleteTask ==
    /\ site' = site
    /\ clients' = clients
    /\ now' = now
    /\ calls' = calls
    /\ pc = "complete_task"
    /\ \E failAt \in {"none", "status", "log"} :
        /\ tasks' = IF failAt # "status"
                    THEN DbUpdateTaskStatus(tasks, state.task_id, "completed", 100,
                                            "Test generation completed", None)
                    ELSE tasks
        /\ storeRaised' = IF failAt = "none" THEN storeRaised
                          ELSE storeRaised \cup {"complete_task"}
        /\ IF failAt = "none"
           THEN /\ sink' = SendWsUpdate(sink, mode, CompleteEvent(state.task_id))
                /\ NodeReturns("complete_task", CompleteUpdate(state))
           ELSE /\ sink' = sink
                /\ NodeReturns("complete_task",
                               FailedUpdate(Prefixed("Task completion failed", DbError)))
    /\ UNCHANGED <<nextId, domAnalysis, features, files, browserVars, passVars, localVars>>
    /\ SinkSide

\* handle_error_node: no try block, a raising store call leaves the node
HandleError ==
    /\ site' = site
    /\ clients' = clients
    /\ now' = now
    /\ calls' = calls
    /\ pc = "handle_error"
    /\ \E failAt \in {"none", "status", "log"} :
        LET task_id == state.task_id
            error_message == state.error_message
        IN  IF task_id # 0
            THEN /\ tasks' = IF failAt # "status"
                             THEN DbUpdateTaskStatus(tasks, task_id, "failed", NoProgress,
                                                     NoStep, error_message)
                             ELSE tasks
                 /\ storeRaised' = IF failAt = "none" THEN storeRaised
                                   ELSE storeRaised \cup {"handle_error"}
                 /\ IF failAt = "none"
                    THEN /\ sink' = SendWsUpdate(sink, mode,
                                                 ErrorEvent(task_id, error_message))
                         /\ NodeReturns("handle_error", [status |-> "failed"])
                    ELSE /\ sink' = sink
                         /\ NodeRaises(DbError)
            ELSE /\ failAt = "none"
                 /\ NodeReturns("handle_error", [status |-> "failed"])
                 /\ UNCHANGED <<tasks, sink, storeRaised>>
    /\ UNCHANGED <<nextId, domAnalysis, features, files, browserVars, passVars, localVars>>
    /\ SinkSide

----------------------------------------------------------------------------
(* generate_tests after the stream, and the end of the background task *)

UnknownError == <<"Unknown error">>
NoResultError == <<"Workflow completed without result">>

\* the try-body of generate_tests once the stream has ended: None when it
\* returns final_state["result"], otherwise the exception it raises
AfterStream(final) ==
    IF final # None /\ "result" \in DOMAIN final[1] /\ final[1].result # None
    THEN None
    ELSE IF final # None /\ UpdateFailed(final[1])
    THEN (IF "error_message" \in DOMAIN final[1] THEN final[1].error_message
          ELSE UnknownError)
    ELSE NoResultError

\* generate_tests from the end of the stream (or the exception that ended
\* it) to its return or raise; the handler records the failure and re-raises
GenerateTestsExit ==
    /\ site' = site
    /\ clients' = clients
    /\ now' = now
    /\ calls' = calls
    /\ storeRaised' = storeRaised
    /\ pc \in {"END", "raised"}
    /\ \E failAt \in {"none", "status", "log"} :
        LET e == IF pc = "raised" THEN raised ELSE AfterStream(lastUpdate)
            error_msg == Prefixed("Error in test generation", e)
        IN  IF e = None
            THEN /\ failAt = "none"
                 /\ outcome' = "result"
                 /\ raised' = None
                 /\ UNCHANGED <<tasks, sink>>
            ELSE /\ outcome' = "exception"
                 /\ selfTaskId = 0 => failAt = "none"
                 /\ tasks' = IF selfTaskId # 0 /\ failAt # "status"
                             THEN DbUpdateTaskStatus(tasks, selfTaskId, "failed",
                                                     NoProgress, NoStep, error_msg)
                             ELSE tasks
                 /\ sink' = IF selfTaskId # 0 /\ failAt = "none"
                            THEN SendWsUpdate(sink, mode, ErrorEvent(selfTaskId, error_msg))
                            ELSE sink
                 /\ raised' = IF failAt = "none" THEN e ELSE DbError
    /\ pc' = IF mode = "api" THEN "wrapper_finish" ELSE "done"
    /\ UNCHANGED <<state, lastUpdate, trace, selfTaskId, clientTaskId, mode>>
    /\ UNCHANGED <<nextId, domAnalysis, features, files, browserVars, passVars, localVars>>
    /\ SinkSide

\* app.run_test_generation after generate_tests: the complete or error message
WrapperFinish ==
    /\ site' = site
    /\ clients' = clients
    /\ now' = now
    /\ calls' = calls
    /\ storeRaised' = storeRaised
    /\ pc = "wrapper_finish"
    /\ sink' = IF outcome = "result"
               THEN ManagerSendUpdate(sink, CompleteEvent(clientTaskId))
               ELSE ManagerSendUpdate(sink, ErrorEvent(clientTaskId, raised))
    /\ pc' = "done"
    /\ UNCHANGED <<runVars, dbVars, files, browserVars, passVars, localVars>>
    /\ SinkSide

Next ==
    \/ ApiGenerate
    \/ WrapperStart
    \/ CliRun
    \/ CreateTask
    \/ BALaunch
    \/ BANavigate
    \/ BAStructure
    \/ BAHoverScan
    \/ BAHoverProbe
    \/ BAHoverNext
    \/ BAHoverReturn
    \/ BAPopupScan
    \/ BAPopupProbe
    \/ BAPopupNext
    \/ BAPopupReturn
    \/ BAExit
    \/ GenerateHoverFeatures
    \/ GeneratePopupFeatures
    \/ CompleteTask
    \/ HandleError
    \/ GenerateTestsExit
    \/ WrapperFinish

Spec == Init /\ [][Next]_vars

(* The same runs with progress: asyncio runs the background task (or         *)
(* asyncio.run the command-line run) until it returns, and every await of   *)
(* a step returns or raises, so a step that can be taken is taken.           *)
SpecFair == Init /\ [][Next]_vars /\ WF_vars(Next)

(* Cancellation (src/app.py shutdown_event: task.cancel() for every active  *)
(* background task).  asyncio throws CancelledError into the task at the    *)
(* await it is suspended on; CancelledError is not an Exception, so no      *)
(* "except Exception" of the steps, of generate_tests or of the wrapper     *)
(* catches it, and only __aexit__ of the browser session runs on its way    *)
(* out.  The second part of the exception names the await it was thrown at. *)
Cancelled(position) == <<"CancelledError", position>>

\* the awaits inside the with-block of browser_analysis_subgraph
InsideBrowserSession ==
    {"ba_navigate", "ba_structure", "ba_hover_scan", "ba_hover_loop", "ba_hover_probed",
     "ba_hover_return", "ba_popup_scan", "ba_popup_loop", "ba_popup_probed",
     "ba_popup_return", "ba_exit"}

\* task.cancel() on the background task of the run, wherever it is suspended
Cancel ==
    /\ site' = site
    /\ clients' = clients
    /\ now' = now
    /\ calls' = calls
    /\ storeRaised' = storeRaised
    /\ mode = "api"
    /\ pc \notin {"idle", "done", "cancelled"}
    /\ \E closeFailAt \in {"none", "page", "browser", "playwright"} :
        /\ pc \notin InsideBrowserSession => closeFailAt = "none"
        /\ playwright' = Close(<<playwright, browser, page>>, closeFailAt)[1]
        /\ browser' = Close(<<playwright, browser, page>>, closeFailAt)[2]
        /\ page' = Close(<<playwright, browser, page>>, closeFailAt)[3]
    /\ raised' = Cancelled(pc)
    /\ pc' = "cancelled"
    \* the locals of the step are gone
    /\ exc' = None
    /\ structure' = None
    /\ hoverFound' = <<>>
    /\ popupFound' = <<>>
    /\ cands' = <<>>
    /\ idx' = 0
    /\ confirmed' = <<>>
    /\ probe' = None
    /\ probeErrors' = {}
    /\ modals' = 0
    /\ interactions' = <<>>
    /\ UNCHANGED <<state, lastUpdate, trace, selfTaskId, clientTaskId, outcome, mode>>
    /\ UNCHANGED <<dbVars, files, sink>>
    /\ SinkSide

NextCancel ==
    \/ Next
    \/ Cancel

\* the runs of the application, which may be shut down at any moment
SpecCancel == Init /\ [][NextCancel]_vars

(* Runs with clients: on a page with one candidate per pass, either no      *)
(* websocket is connected or one is open for every task id, and each send   *)
(* to an open one may fail.                                                  *)
SinkSites == {[nHover |-> 1, nPopup |-> 1, texts |-> {"a"}, visible |-> 1, modals |-> 1]}

InitSink == Idle(SinkSites, {NoConnections, [i \in 1..MaxTasks |-> "open"]})

SpecSink == InitSink /\ [][Next]_vars

----------------------------------------------------------------------------
(* The discovery step alone, on richer pages: the run has been started by  *)
(* run_test_generation and create_task has returned its success update.    *)

CreatedUpdate ==
    [task_id |-> 1, status |-> "running", progress |-> 5, current_step |-> "Task created"]

\* the run stands at `position` with run state `st`, create_task having returned
StartedWith(position, st, sites) ==
    /\ pc = position
    /\ mode = "cli"
    /\ state = st
    /\ lastUpdate = Some(CreatedUpdate)
    /\ trace = <<[node |-> "create_task", failed |-> FALSE, progress |-> 5]>>
    /\ raised = None
    /\ selfTaskId = 1
    /\ clientTaskId = 0
    /\ outcome = "none"
    /\ tasks = DbUpdateTaskStatus(DbCreateTask([i \in 1..MaxTasks |-> NoTask], 1),
                                  1, "running", 0, "Initializing", None)
    /\ nextId = 2
    /\ domAnalysis = <<>>
    /\ features = <<>>
    /\ files = {}
    /\ sink = <<>>
    /\ playwright = "none"
    /\ browser = "none"
    /\ page = "none"
    /\ exc = None
    /\ structure = None
    /\ hoverFound = <<>>
    /\ popupFound = <<>>
    /\ cands = <<>>
    /\ idx = 0
    /\ confirmed = <<>>
    /\ probe = None
    /\ probeErrors = {}
    /\ modals = 0
    /\ interactions = <<>>
    /\ storeRaised = {}
    /\ calls = <<>>
    /\ now = 0
    /\ connections = [i \in 1..MaxTasks |-> "none"]
    /\ sinkDiverged = FALSE
    /\ clients = NoClients
    /\ site \in sites

StartedAt(position, sites) ==
    StartedWith(position, Merge(InitialState, CreatedUpdate), sites)

DiscoveryStart(sites) == StartedAt("browser_analysis", sites)

InitDiscovery == DiscoveryStart(DiscoverySites)

NextDiscovery ==
    \/ BALaunch
    \/ BANavigate
    \/ BAStructure
    \/ BAHoverScan
    \/ BAHoverProbe
    \/ BAHoverNext
    \/ BAHoverReturn
    \/ BAPopupScan
    \/ BAPopupProbe
    \/ BAPopupNext
    \/ BAPopupReturn
    \/ BAExit

SpecDiscovery == InitDiscovery /\ [][NextDiscovery]_vars

(* The static scans alone, on pages with more matching elements than a     *)
(* scan may emit and with two neighbouring elements sharing a locator (as   *)
(* two elements with the same id do).                                       *)

\* a page of n matching elements; element d (d > 1) has the locator of the
\* element before it
DocOf(n, d) == [i \in 1..n |-> IF i = d /\ d > 1 THEN i - 1 ELSE i]

ScanSites == {[doc |-> DocOf(n, d)] : n \in 0..MaxDoc, d \in 0..MaxDoc}

InitScan == StartedAt("scan_hover", ScanSites)

\* page.evaluate(dynamic_hover_detection)
HoverStaticScan ==
    /\ site' = site
    /\ clients' = clients
    /\ now' = now
    /\ calls' = calls
    /\ storeRaised' = storeRaised
    /\ pc = "scan_hover"
    /\ cands' = HoverScan(site.doc)
    /\ pc' = "scan_popup"
    /\ UNCHANGED <<runVars, dbVars, files, sink, browserVars, localVars>>
    /\ UNCHANGED <<idx, confirmed, probe, probeErrors, modals, interactions>>
    /\ SinkSide

\* page.evaluate(dynamic_popup_detection)
PopupStaticScan ==
    /\ site' = site
    /\ clients' = clients
    /\ now' = now
    /\ calls' = calls
    /\ storeRaised' = storeRaised
    /\ pc = "scan_popup"
    /\ cands' = PopupScan(site.doc)
    /\ pc' = "scan_done"
    /\ UNCHANGED <<runVars, dbVars, files, sink, browserVars, localVars>>
    /\ UNCHANGED <<idx, confirmed, probe, probeErrors, modals, interactions>>
    /\ SinkSide

NextScan ==
    \/ HoverStaticScan
    \/ PopupStaticScan

SpecScan == InitScan /\ [][NextScan]_vars

(* The generation steps alone, for every element list a step can be given: *)
(* unset, empty, or holding one confirmed element.                          *)
ElementLists ==
    {None, Some(<<>>), Some(<<[cand |-> 1, confirmed |-> TRUE]>>)}

InitGeneration ==
    \E hover \in ElementLists, popup \in ElementLists :
        StartedWith("generate_hover_features",
                    [Merge(InitialState, CreatedUpdate) EXCEPT
                        !.hover_elements = hover, !.popup_elements = popup,
                        !.progress = 65],
                    SinkSites)

NextGeneration ==
    \/ GenerateHoverFeatures
    \/ GeneratePopupFeatures

SpecGeneration == InitGeneration /\ [][NextGeneration]_vars

(* Two runs of one process in their generation steps: the run of the model *)
(* and the background task of another POST /api/generate, which executes    *)
(* the same generation nodes for its own task id while the clock goes on.   *)
OtherRun == 2

\* what the other run generated
OtherContents == {"other text"}

\* one second passes
Tick ==
    /\ site' = site
    /\ clients' = clients
    /\ now < MaxClock
    /\ now' = now + 1
    /\ UNCHANGED <<pc, runVars, dbVars, files, sink, browserVars, passVars, localVars>>
    /\ UNCHANGED <<storeRaised, calls>>
    /\ SinkSide

\* save_feature_file and save_feature in a generation node of the other run
OtherRunSavesFeature ==
    /\ site' = site
    /\ clients' = clients
    /\ now' = now
    /\ \E category \in {"hover", "popup"}, content \in OtherContents :
        \* each of its two generation nodes runs once
        /\ \A i \in 1..Len(features) :
               ~(features[i].task_id = OtherRun /\ features[i].feature_type = category)
        /\ files' = SaveFeatureFile(files, FeatureFileName(category, now), OtherRun,
                                    category, content)
        /\ features' = DbSaveFeature(features, OtherRun, category, content)
    /\ UNCHANGED <<pc, runVars, tasks, nextId, domAnalysis, sink, browserVars, passVars>>
    /\ UNCHANGED <<localVars, storeRaised, calls>>
    /\ SinkSide

NextFiles ==
    \/ GenerateHoverFeatures
    \/ GeneratePopupFeatures
    \/ OtherRunSavesFeature
    \/ Tick

SpecFiles == InitGeneration /\ [][NextFiles]_vars

(* Locators.  A page is the sequence of its element nodes below the body,   *)
(* in document order; a node has its parent (0: the body), its tag name     *)
(* and its id attribute ("": none).                                          *)
Tags == {"div", "a"}
Ids == {"", "x"}

RECURSIVE AncestorsOrSelf(_, _)
AncestorsOrSelf(dom, n) ==
    IF n = 0 THEN {} ELSE {n} \cup AncestorsOrSelf(dom, dom[n].parent)

\* document order: a node follows its parent, and opens below the node
\* before it, below one of that node's ancestors, or below the body
IsDocumentOrder(dom) ==
    \A i \in 1..Len(dom) :
        /\ dom[i].parent < i
        /\ i > 1 => dom[i].parent \in AncestorsOrSelf(dom, i - 1) \cup {0}

Doms ==
    {d \in SeqsUpTo([parent : 0..(MaxNodes - 1), tag : Tags, id : Ids], MaxNodes) :
        d # <<>> /\ IsDocumentOrder(d)}

\* "index": the previous siblings of node n that are elements of its name
SameNameBefore(dom, n) ==
    Cardinality({m \in 1..(n - 1) : dom[m].parent = dom[n].parent /\ dom[m].tag = dom[n].tag})

\* a path step that counts the previous siblings of any name
PathStep_any_name(dom, n) ==
    LET before == Cardinality({m \in 1..(n - 1) : dom[m].parent = dom[n].parent})
    IN  [tag |-> dom[n].tag, position |-> IF before > 0 THEN before + 1 ELSE 0]

\* one step of a path: tagName + (index > 0 ? `[${index + 1}]` : '');
\* position 0 stands for a step without a predicate
PathStep(dom, n) ==
    [tag |-> dom[n].tag,
     position |-> IF SameNameBefore(dom, n) > 0 THEN SameNameBefore(dom, n) + 1 ELSE 0]

\* the while loop of getXPath: parts.unshift(...) up to the document
RECURSIVE PathTo(_, _)
PathTo(dom, n) ==
    IF n = 0 THEN <<>> ELSE Append(PathTo(dom, dom[n].parent), PathStep(dom, n))

IdLocator(id) == [kind |-> "id", id |-> id, steps |-> <<>>]
PathLocator(steps) == [kind |-> "path", id |-> "", steps |-> steps]

\* a popup-scan getXPath that writes the predicate of every step
GetXPathPopup_all_positions(dom, n) ==
    IF dom[n].id # "" THEN IdLocator(dom[n].id)
    ELSE PathLocator([k \in 1..Len(PathTo(dom, n)) |->
                         [PathTo(dom, n)[k] EXCEPT
                             !.position = IF @ = 0 THEN 1 ELSE @]])

\* getXPath of dynamic_hover_detection
GetXPath(dom, n) ==
    IF dom[n].id # "" THEN IdLocator(dom[n].id) ELSE PathLocator(PathTo(dom, n))

\* getXPath of dynamic_popup_detection
GetXPathPopup(dom, n) ==
    IF dom[n].id # "" THEN IdLocator(dom[n].id) ELSE PathLocator(PathTo(dom, n))

\* the nodes an XPath step selects below the nodes `context`: the children
\* of that name, all of them or the one at the position of the predicate
RECURSIVE SelectPath(_, _, _)
SelectPath(dom, context, steps) ==
    IF steps = <<>> THEN context
    ELSE LET step == Head(steps)
             selected ==
                 {n \in 1..Len(dom) :
                     /\ dom[n].parent \in context
                     /\ dom[n].tag = step.tag
                     /\ step.position # 0 => SameNameBefore(dom, n) + 1 = step.position}
         IN  SelectPath(dom, selected, Tail(steps))

\* the nodes the XPath of `locator` selects
Selected(dom, locator) ==
    IF locator.kind = "id" THEN {n \in 1..Len(dom) : dom[n].id = locator.id}
    ELSE SelectPath(dom, {0}, locator.steps)

\* page.query_selector(f"xpath={xpath}"): the first selected node in document
\* order, 0 (None) when nothing is selected
QuerySelector(dom, locator) ==
    IF Selected(dom, locator) = {} THEN 0
    ELSE CHOOSE n \in Selected(dom, locator) : \A m \in Selected(dom, locator) : n <= m

LocatorSites == {[dom |-> d] : d \in Doms}

InitLocator == StartedAt("locate_hover", LocatorSites)

\* getXPath(element) for every element, in the hover scan
HoverLocators ==
    /\ site' = site
    /\ clients' = clients
    /\ now' = now
    /\ calls' = calls
    /\ storeRaised' = storeRaised
    /\ pc = "locate_hover"
    /\ cands' = [n \in 1..Len(site.dom) |-> GetXPath(site.dom, n)]
    /\ pc' = "locate_again"
    /\ UNCHANGED <<runVars, dbVars, files, sink, browserVars, localVars>>
    /\ UNCHANGED <<idx, confirmed, probe, probeErrors, modals, interactions>>
    /\ SinkSide

\* the same function evaluated once more on the unchanged page
HoverLocatorsAgain ==
    /\ site' = site
    /\ clients' = clients
    /\ now' = now
    /\ calls' = calls
    /\ storeRaised' = storeRaised
    /\ pc = "locate_again"
    /\ hoverFound' = [n \in 1..Len(site.dom) |-> GetXPath(site.dom, n)]
    /\ pc' = "locate_popup"
    /\ UNCHANGED <<runVars, dbVars, files, sink, browserVars, passVars>>
    /\ UNCHANGED <<exc, structure, popupFound>>
    /\ SinkSide

\* getXPath(element) for every element, in the popup scan
PopupLocators ==
    /\ site' = site
    /\ clients' = clients
    /\ now' = now
    /\ calls' = calls
    /\ storeRaised' = storeRaised
    /\ pc = "locate_popup"
    /\ popupFound' = [n \in 1..Len(site.dom) |-> GetXPathPopup(site.dom, n)]
    /\ pc' = "locate_resolve"
    /\ UNCHANGED <<runVars, dbVars, files, sink, browserVars, passVars>>
    /\ UNCHANGED <<exc, structure, hoverFound>>
    /\ SinkSide

\* query_selector for the locator of every element
ResolveLocators ==
    /\ site' = site
    /\ clients' = clients
    /\ now' = now
    /\ calls' = calls
    /\ storeRaised' = storeRaised
    /\ pc = "locate_resolve"
    /\ confirmed' = [n \in 1..Len(cands) |-> QuerySelector(site.dom, cands[n])]
    /\ pc' = "locate_done"
    /\ UNCHANGED <<runVars, dbVars, files, sink, browserVars, localVars>>
    /\ UNCHANGED <<cands, idx, probe, probeErrors, modals, interactions>>
    /\ SinkSide

NextLocator ==
    \/ HoverLocators
    \/ HoverLocatorsAgain
    \/ PopupLocators
    \/ ResolveLocators

SpecLocator == InitLocator /\ [][NextLocator]_vars

(* The candidacy filter of the popup scan, on pages of one element.  An     *)
(* element has its tag name, whether it has an onclick attribute and the    *)
(* role "button", whether it is rendered, the length of its trimmed text,   *)
(* whether a data-* attribute name holds a popup keyword, its               *)
(* aria-expanded / aria-haspopup attribute ("absent", present but "empty",  *)
(* or with a "value"), and whether its text holds a call-to-action phrase.  *)
TextLengths == {0, 50, 150, 250}

Elements ==
    {e \in [tag : {"button", "a", "div", "svg"}, onclick : BOOLEAN, roleButton : BOOLEAN,
            rendered : BOOLEAN, textLength : TextLengths, dataKeyword : BOOLEAN,
            aria : {"absent", "empty", "value"}, callToAction : BOOLEAN] :
        \* a phrase is part of a text
        e.callToAction => e.textLength > 0}

\* document.querySelectorAll('button, a, [onclick], [role="button"]')
IsClickable(e) == e.tag \in {"button", "a"} \/ e.onclick \/ e.roleButton

\* isVisible(element)
IsVisible(e) == e.rendered

\* "if (!text || text.length > 100) return"
PopupTextLimit == 100
HasScanText(e) == e.textLength # 0 /\ e.textLength <= PopupTextLimit

\* mightTriggerPopup(element): getAttribute gives "" for an empty attribute,
\* which "ariaExpanded || ariaHaspopup" takes for absent
MightTriggerPopup(e) ==
    \/ e.onclick
    \/ e.dataKeyword
    \/ e.aria = "value"
    \/ e.callToAction

\* the forEach body of dynamic_popup_detection: whether the element is pushed
PopupEmits(e) == IsClickable(e) /\ IsVisible(e) /\ HasScanText(e) /\ MightTriggerPopup(e)

FilterSites == {[element |-> e] : e \in Elements}

InitFilter == StartedAt("filter_popup", FilterSites)

\* page.evaluate(dynamic_popup_detection) on the page of one element
PopupFilterScan ==
    /\ site' = site
    /\ clients' = clients
    /\ now' = now
    /\ calls' = calls
    /\ storeRaised' = storeRaised
    /\ pc = "filter_popup"
    /\ cands' = PopupScan(IF PopupEmits(site.element) THEN <<1>> ELSE <<>>)
    /\ pc' = "filter_done"
    /\ UNCHANGED <<runVars, dbVars, files, sink, browserVars, localVars>>
    /\ UNCHANGED <<idx, confirmed, probe, probeErrors, modals, interactions>>
    /\ SinkSide

NextFilter == PopupFilterScan

SpecFilter == InitFilter /\ [][NextFilter]_vars

\* browser_analysis on the pages of RevealSites
InitReveal == DiscoveryStart(RevealSites)

SpecReveal == InitReveal /\ [][NextDiscovery]_vars

----------------------------------------------------------------------------
(* The filter of the hover static scan (src/core/browser.py                 *)
(* dynamic_hover_detection), on pages of one element                         *)

\* style sheets of the page
MaxSheets == 2
\* ancestor levels above the element at which a dropdown container can sit
MaxLevels == 4

(* A style sheet as hasHoverBehavior sees it: reading its rules throws      *)
(* ("unreadable", a cross-origin sheet), one of its :hover rules matches    *)
(* the element ("hover_match"), none does ("no_match"), or a :hover rule    *)
(* whose stripped selector makes element.matches throw comes before the     *)
(* matching one ("throws_before_match")                                      *)
SheetKinds == {"unreadable", "hover_match", "no_match", "throws_before_match"}

HoverTextLengths == {0, 200, 201}

(* `box` is a non-zero bounding box; `text` the length of the trimmed       *)
(* innerText / textContent / aria-label / title; `dropdownAt` the level     *)
(* (1 = parent) of the nearest ancestor with position relative or absolute  *)
(* that has a hidden child, 0 when there is none; `plainParentHides` a      *)
(* parent with a hidden child that is not positioned                         *)
HoverElements ==
    [tag : {"a", "img", "div"}, box : BOOLEAN,
     style : {"shown", "display_none", "visibility_hidden", "opacity_0"},
     text : HoverTextLengths, cursorPointer : BOOLEAN, hoverAttribute : BOOLEAN,
     sheets : SeqsUpTo(SheetKinds, MaxSheets), dropdownAt : 0..MaxLevels,
     plainParentHides : BOOLEAN]

\* isVisible(element) of dynamic_hover_detection
IsVisibleForHover(e) == e.box /\ e.style = "shown"

\* "if (!text && tagName !== 'img' && tagName !== 'svg') return;
\*  if (text.length > 200) return"
HoverTextLimit == 200
HasHoverText(e) ==
    /\ e.text # 0 \/ e.tag = "img"
    /\ e.text <= HoverTextLimit

\* a sheet loop that the first unreadable sheet ends
HoverRuleMatches_stops_at_unreadable(sheets) ==
    \E i \in 1..Len(sheets) :
        /\ sheets[i] = "hover_match"
        /\ \A j \in 1..(i - 1) : sheets[j] # "unreadable"

(* the loop over document.styleSheets: an exception inside one sheet (of    *)
(* reading its rules or of element.matches) is caught per sheet and the     *)
(* loop goes on with the next sheet                                          *)
HoverRuleMatches(sheets) == \E i \in 1..Len(sheets) : sheets[i] = "hover_match"

\* hasHoverBehavior(element); the ancestor walk examines three levels
HasHoverBehavior(e) ==
    \/ e.cursorPointer
    \/ e.hoverAttribute
    \/ HoverRuleMatches(e.sheets)
    \/ e.dropdownAt \in 1..3

\* the forEach body of dynamic_hover_detection: whether the element is pushed
HoverEmits(e) == IsVisibleForHover(e) /\ HasHoverText(e) /\ HasHoverBehavior(e)

HoverFilterSites == {[element |-> e] : e \in HoverElements}

InitHoverFilter == StartedAt("filter_hover", HoverFilterSites)

\* page.evaluate(dynamic_hover_detection) on the page of one element
HoverFilterScan ==
    /\ site' = site
    /\ clients' = clients
    /\ now' = now
    /\ calls' = calls
    /\ storeRaised' = storeRaised
    /\ pc = "filter_hover"
    /\ cands' = HoverScan(IF HoverEmits(site.element) THEN <<1>> ELSE <<>>)
    /\ pc' = "filter_hover_done"
    /\ UNCHANGED <<runVars, dbVars, files, sink, browserVars, localVars>>
    /\ UNCHANGED <<idx, confirmed, probe, probeErrors, modals, interactions>>
    /\ SinkSide

NextHoverFilter == HoverFilterScan

SpecHoverFilter == InitHoverFilter /\ [][NextHoverFilter]_vars

----------------------------------------------------------------------------
(* Websocket clients (src/app.py ConnectionManager, websocket_endpoint)     *)

\* ConnectionManager.disconnect: "if task_id in ...: del active_connections[task_id]"
ManagerDisconnect(active, id) == [active EXCEPT ![id] = 0]

\* ConnectionManager.connect: "active_connections[task_id] = websocket"
ManagerConnect(active, id, c) == [active EXCEPT ![id] = c]

\* the server with no client, on a page that is never loaded
InitConnections ==
    Idle({[nHover |-> 0, nPopup |-> 0, texts |-> {"a"}, visible |-> 1, modals |-> 1]},
         {NoConnections})

\* the frame of the websocket actions: the run and its stores are not touched
ConnectionsFrame ==
    /\ site' = site
    /\ now' = now
    /\ calls' = calls
    /\ storeRaised' = storeRaised
    /\ pc' = pc
    /\ UNCHANGED <<runVars, dbVars, files, browserVars, passVars, localVars>>
    /\ UNCHANGED <<connections, sinkDiverged>>

\* websocket_endpoint up to its receive loop: client c opens /ws/{id}
ClientConnect ==
    /\ ConnectionsFrame
    /\ sink' = sink
    /\ \E c \in 1..MaxClients, id \in 1..MaxTasks :
        /\ clients.socket[c].handler = "none"
        /\ clients' =
            [active_connections |-> ManagerConnect(clients.active_connections, id, c),
             socket |-> [clients.socket EXCEPT
                            ![c] = [NoClient EXCEPT !.handler = "listening",
                                                    !.task_id = id,
                                                    !.since = Len(sink)]]]

\* receive_text raises WebSocketDisconnect in the handler of client c
ClientDisconnect ==
    /\ ConnectionsFrame
    /\ sink' = sink
    /\ \E c \in 1..MaxClients :
        /\ clients.socket[c].handler = "listening"
        /\ clients' =
            [active_connections |->
                 ManagerDisconnect(clients.active_connections, clients.socket[c].task_id),
             socket |-> [clients.socket EXCEPT ![c].handler = "ended"]]

\* ConnectionManager.send_update(id, message) called by a run: send_json on
\* the registered websocket returns (`delivered`) or raises
ManagerSend ==
    /\ ConnectionsFrame
    /\ Len(sink) < MaxUpdates
    /\ \E id \in 1..MaxTasks, delivered \in BOOLEAN :
        LET c == clients.active_connections[id]
        IN  /\ sink' = ManagerSendUpdate(sink, StatusEvent(id, 10))
            /\ IF c = 0
               THEN delivered /\ clients' = clients
               ELSE IF delivered
               THEN clients' = [clients EXCEPT
                                   !.socket[c].received = @ \cup {Len(sink) + 1}]
               ELSE clients' =
                        [active_connections |->
                             ManagerDisconnect(clients.active_connections, id),
                         socket |-> [clients.socket EXCEPT ![c].sendFailed = TRUE]]

NextConnections ==
    \/ ClientConnect
    \/ ClientDisconnect
    \/ ManagerSend

SpecConnections == InitConnections /\ [][NextConnections]_vars

----------------------------------------------------------------------------
(* Cleaning of generated text (src/core/gherkin_generator.py                *)
(* _clean_gherkin_output), on texts of a few lines.  A text is the          *)
(* sequence of its lines (content.split('\n'), never empty), a line the     *)
(* sequence of its parts: a code fence, a keyword, a word or a blank.       *)

\* lines of a reply of the language model
MaxLines == 3

Fences == {"[fence]gherkin", "[fence]"}
UserStoryStarts == {"As a", "I want", "So that"}

\* the lines a reply is made of
ReplyLines ==
    {<<"Feature:">>, <<" ", "Scenario:">>, <<"Background:">>, <<"As a">>,
     <<" ", "I want">>, <<"So that">>, <<" ", "Given", " ">>, <<>>, <<" ">>,
     <<"[fence]gherkin">>, <<"[fence]", "As a">>, <<"Given", "[fence]">>}

ReplyTexts == SeqsUpTo(ReplyLines, MaxLines) \ {<<>>}

\* content.replace(fence + "gherkin", "").replace(fence, ""), the fence being
\* three backquotes
RemoveFences(content) ==
    [i \in 1..Len(content) |-> SelectSeq(content[i], LAMBDA part : part \notin Fences)]

\* str.lstrip / str.rstrip / str.strip of a line
RECURSIVE LStrip(_)
LStrip(line) == IF line # <<>> /\ Head(line) = " " THEN LStrip(Tail(line)) ELSE line
RECURSIVE RStrip(_)
RStrip(line) ==
    IF line # <<>> /\ line[Len(line)] = " " THEN RStrip(SubSeq(line, 1, Len(line) - 1))
    ELSE line
Strip(line) == LStrip(RStrip(line))

\* stripped.startswith(k) for one of the starts `ks`
StartsWith(stripped, ks) == stripped # <<>> /\ stripped[1] \in ks

\* the first loop: user-story and Background lines are dropped and switch
\* skip_until_scenario on, a Feature or Scenario line switches it off, and a
\* line is kept (right-stripped) when it is not blank and nothing is skipped
RECURSIVE KeepLines(_, _)
KeepLines(lines, skip_until_scenario) ==
    IF lines = <<>> THEN <<>>
    ELSE LET line == Head(lines)
             stripped == Strip(line)
             skip == IF StartsWith(stripped, {"Feature:", "Scenario:"}) THEN FALSE
                     ELSE skip_until_scenario
         IN  IF StartsWith(stripped, UserStoryStarts) \/ StartsWith(stripped, {"Background:"})
             THEN KeepLines(Tail(lines), TRUE)
             ELSE (IF ~skip /\ stripped # <<>> THEN <<RStrip(line)>> ELSE <<>>)
                  \o KeepLines(Tail(lines), skip)

\* the second loop: a blank line is kept unless the previous one was blank,
\* and a blank line is added after every Feature line
RECURSIVE SpaceLines(_, _)
SpaceLines(cleaned_lines, prev_blank) ==
    IF cleaned_lines = <<>> THEN <<>>
    ELSE LET line == Head(cleaned_lines)
         IN  IF Strip(line) = <<>>
             THEN (IF ~prev_blank THEN <<line>> ELSE <<>>)
                  \o SpaceLines(Tail(cleaned_lines), TRUE)
             ELSE <<line>>
                  \o (IF StartsWith(Strip(line), {"Feature:"}) THEN << <<>> >> ELSE <<>>)
                  \o SpaceLines(Tail(cleaned_lines), FALSE)

\* '\n'.join(final_lines): the empty list gives the empty text, one empty line
JoinLines(final_lines) == IF final_lines = <<>> THEN << <<>> >> ELSE final_lines

\* a cleaning that removes the code fences after the lines were filtered
CleanGherkinLines_fences_last(content) ==
    JoinLines(RemoveFences(SpaceLines(KeepLines(content, FALSE), FALSE)))

\* _clean_gherkin_output on the lines of a text
CleanGherkinLines(content) ==
    JoinLines(SpaceLines(KeepLines(RemoveFences(content), FALSE), FALSE))

CleanSites == {[reply |-> t] : t \in ReplyTexts}

InitClean == StartedAt("clean", CleanSites)

\* feature_content = self._clean_gherkin_output(feature_content)
CleanReply ==
    /\ site' = site
    /\ clients' = clients
    /\ now' = now
    /\ calls' = calls
    /\ storeRaised' = storeRaised
    /\ pc = "clean"
    /\ cands' = CleanGherkinLines(site.reply)
    /\ pc' = "clean_again"
    /\ UNCHANGED <<runVars, dbVars, files, sink, browserVars, localVars>>
    /\ UNCHANGED <<idx, confirmed, probe, probeErrors, modals, interactions>>
    /\ SinkSide

\* the same function applied to the text it returned
CleanReplyAgain ==
    /\ site' = site
    /\ clients' = clients
    /\ now' = now
    /\ calls' = calls
    /\ storeRaised' = storeRaised
    /\ pc = "clean_again"
    /\ confirmed' = CleanGherkinLines(cands)
    /\ pc' = "clean_done"
    /\ UNCHANGED <<runVars, dbVars, files, sink, browserVars, localVars>>
    /\ UNCHANGED <<cands, idx, probe, probeErrors, modals, interactions>>
    /\ SinkSide

NextClean ==
    \/ CleanReply
    \/ CleanReplyAgain

SpecClean == InitClean /\ [][NextClean]_vars

----------------------------------------------------------------------------
(* Properties *)

WorkSteps ==
    {"create_task", "browser_analysis", "generate_hover_features",
     "generate_popup_features"}

\* positions at which a work step or complete_task is about to run or running
WorkPositions ==
    {"create_task", "browser_analysis", "ba_navigate", "ba_structure", "ba_hover_scan",
     "ba_hover_loop", "ba_hover_probed", "ba_hover_return", "ba_popup_scan",
     "ba_popup_loop", "ba_popup_probed", "ba_popup_return", "ba_exit",
     "generate_hover_features", "generate_popup_features", "complete_task"}

Executed(node) == \E i \in 1..Len(trace) : trace[i].node = node

(* C1: once a work step (create_task, browser_analysis,                     *)
(* generate_hover_features, generate_popup_features) has returned with      *)
(* status failed, the next step executed is handle_error: no work step and  *)
(* no complete_task follows it in the run, and none is about to run.        *)
C1_FailedStepGoesToHandleError ==
    \A i \in 1..Len(trace) :
        (trace[i].node \in WorkSteps /\ trace[i].failed) =>
            IF i < Len(trace) THEN trace[i + 1].node = "handle_error"
            ELSE pc \notin WorkPositions

(* C2: when the graph has terminated with the run state's status failed,    *)
(* handle_error has been executed, whichever step failed.                   *)
C2_FailedRunWentThroughHandleError ==
    (pc = "END" /\ state.status = "failed") => Executed("handle_error")

(* C3: no node function lets an exception out of the transition: the       *)
(* stream of node updates is never ended by an exception of a node.        *)
C3_NoNodeRaises == pc # "raised"

(* C4: when browser_analysis has returned, none of the browser resources   *)
(* started for it (driver, browser, page) is still open.                    *)
C4_BrowserClosedOnReturn ==
    Executed("browser_analysis") =>
        playwright # "open" /\ browser # "open" /\ page # "open"

NavigationFailedMessage == Prefixed("Browser analysis error", NavigationError)

(* C5: if navigation of the target page fails, no discovery result is       *)
(* produced (page_structure, hover_elements, popup_elements stay unset, no  *)
(* DOM analysis row is written), no hover or popup pass and no later work   *)
(* step runs (the stored progress stays at the 20 written before            *)
(* navigating), and the run has status failed with a non-empty message and  *)
(* never yields a result.                                                    *)
C5_NavigationFailureFailsRun ==
    /\ exc = NavigationError =>
           /\ pc = "ba_exit"
           /\ structure = None /\ hoverFound = <<>> /\ popupFound = <<>>
           /\ cands = <<>> /\ probe = None
    /\ state.error_message = NavigationFailedMessage =>
           /\ state.status = "failed"
           /\ state.error_message # None
           /\ state.page_structure = None
           /\ state.hover_elements = None
           /\ state.popup_elements = None
           /\ domAnalysis = <<>>
           /\ features = <<>>
           /\ tasks[state.task_id].progress = 20
           /\ ~Executed("generate_hover_features")
           /\ ~Executed("generate_popup_features")
           /\ ~Executed("complete_task")
           /\ pc \notin WorkPositions
           /\ outcome # "result"

\* a run that ended after a failed navigation
C5_Witness ==
    /\ pc = "done"
    /\ state.error_message = NavigationFailedMessage
    /\ Executed("handle_error")
    /\ outcome = "exception"

\* the progress of the run state after each node, in order
RunProgress == [i \in 1..Len(trace) |-> trace[i].progress]

(* C6: for a successful run the progress values handed to the Progress      *)
(* Sink are, in order, non-decreasing and (when a sink is installed) end    *)
(* with 100; the progress merged into the run state after each step is      *)
(* 5, 65, 80, 95, 100.                                                       *)
C6_ProgressNonDecreasing ==
    state.status = "completed" =>
        /\ \A i, j \in 1..Len(sink) : i <= j => sink[i].progress <= sink[j].progress
        /\ \A i \in 1..Len(sink) : sink[i].progress \in 0..100
        /\ mode = "api" => sink # <<>> /\ sink[Len(sink)].progress = 100
        /\ RunProgress = <<5, 65, 80, 95, 100>>

\* a successful run started through the API, all messages sent
C6_Witness ==
    /\ pc = "done"
    /\ mode = "api"
    /\ state.status = "completed"
    /\ outcome = "result"
    /\ Len(sink) = 11

(* C7: every status message handed to the Progress Sink for a run           *)
(* identifier carries the (status, progress) pair the durable store holds   *)
(* for that identifier when it is sent, messages of the pipeline steps and  *)
(* of the background-task wrapper alike.                                     *)
C7_StatusEventMatchesStore ==
    [][Len(sink') > Len(sink) =>
           LET e == sink'[Len(sink')]
           IN  e.type = "status" =>
                   /\ tasks'[e.task_id].status = e.status
                   /\ tasks'[e.task_id].progress = e.progress]_vars

\* the probing of a candidate met a failure: the locator did not resolve,
\* the interaction (or the pointer reset) threw, or an evaluation for the
\* before/after snapshot or modal count failed
ProbeFailed(p) == ~p.resolved \/ p.threw \/ p.beforeFailed \/ p.afterFailed

IsConfirmed(cand) == \E j \in 1..Len(confirmed) : confirmed[j].cand = cand

(* C8: a hover or popup candidate whose probing met a failure is dropped:   *)
(* it is not in the confirmed list.                                          *)
C8_FailedProbeIsDropped ==
    (probe # None /\ ProbeFailed(probe[1])) => ~IsConfirmed(probe[1].cand)

(* C9: a failure while probing one candidate does not abort the pass or     *)
(* fail the run: when a pass returns, every candidate within the maximum    *)
(* has been probed; a probe that threw leaves no exception pending; and     *)
(* browser_analysis reports failed only for a store, navigation or          *)
(* initialization failure.                                                   *)
C9_ProbeFailureDoesNotAbort ==
    /\ pc \in {"ba_hover_return", "ba_popup_return"} => idx = Len(cands)
    /\ (probe # None /\ ProbeFailed(probe[1])) => exc = None
    /\ (Executed("browser_analysis") /\ state.status = "failed") =>
           state.error_message \in
               {Prefixed("Browser analysis error", m) :
                    m \in {DbError, NavigationError, InitError}}

\* the hover pass returns with the second candidate confirmed after the
\* probing of the first one threw
C9_Witness ==
    /\ pc = "ba_hover_return"
    /\ 0 \in probeErrors
    /\ idx = 2
    /\ Len(confirmed) = 1
    /\ confirmed[1].cand = 2

(* C10: a hover candidate is confirmed if and only if both snapshots were   *)
(* taken around the hover and the one after has strictly more visible       *)
(* interactive elements or a different markup length than the one before.   *)
C10_ConfirmedIffChanged ==
    pc = "ba_hover_probed" =>
        LET p == probe[1]
        IN  IsConfirmed(p.cand) <=>
                /\ p.compared
                /\ \/ Len(p.after.visible_elements) > Len(p.before.visible_elements)
                   \/ p.after.html_length # p.before.html_length

\* a candidate confirmed by the markup length alone, fewer elements visible
C10_Witness ==
    /\ pc = "ba_hover_probed"
    /\ probe[1].compared
    /\ ~probe[1].beforeFailed /\ ~probe[1].afterFailed
    /\ Len(probe[1].after.visible_elements) < Len(probe[1].before.visible_elements)
    /\ probe[1].after.html_length # probe[1].before.html_length
    /\ IsConfirmed(probe[1].cand)

\* the positions inside analyze_hover_elements, where `confirmed` is its list
HoverPositions == {"ba_hover_loop", "ba_hover_probed", "ba_hover_return"}

\* every revealed-elements list of `elems` has at most 5 entries, all with text
RevealedListsOk(elems) ==
    \A j \in 1..Len(elems) :
        /\ Len(elems[j].revealed_elements) <= 5
        /\ \A k \in 1..Len(elems[j].revealed_elements) :
               elems[j].revealed_elements[k] # ""

(* C11: for every confirmed hover element the revealed-elements list has at *)
(* most 5 entries and every entry has a non-empty text; for the candidate   *)
(* just confirmed, no entry's text occurs among the visible-element texts   *)
(* of the snapshot taken before the hover.                                   *)
C11_RevealedElementsBounded ==
    /\ pc \in HoverPositions => RevealedListsOk(confirmed)
    /\ RevealedListsOk(hoverFound)
    /\ (pc = "ba_hover_probed" /\ IsConfirmed(probe[1].cand)) =>
           LET revealed == confirmed[Len(confirmed)].revealed_elements
           IN  \A k \in 1..Len(revealed) :
                   revealed[k] \notin TextsOf(probe[1].before.visible_elements)

\* six elements with a text became visible over a snapshot that already had
\* an element (without text): five of them are listed
C11_Witness ==
    /\ pc = "ba_hover_probed"
    /\ IsConfirmed(probe[1].cand)
    /\ probe[1].before.visible_elements # <<>>
    /\ Len(probe[1].after.visible_elements) = 6
    /\ \A k \in 1..6 : probe[1].after.visible_elements[k] # ""
    /\ Len(confirmed[Len(confirmed)].revealed_elements) = 5

(* C12: a popup trigger is in the confirmed list only if, for its click,    *)
(* the modal count after the click exceeded the count before the click or   *)
(* at least one modal description was captured after the click.             *)
C12_ConfirmedPopupHadModal ==
    (pc = "ba_popup_probed" /\ IsConfirmed(probe[1].cand)) =>
        /\ probe[1].compared
        /\ \/ probe[1].after_modals > probe[1].before_modals
           \/ probe[1].modal_details # <<>>
        /\ confirmed[Len(confirmed)].popup_details = probe[1].modal_details

\* a trigger confirmed by a modal description alone: the modal count did not
\* rise, a modal left open by the candidate before being counted both times
C12_Witness ==
    /\ pc = "ba_popup_probed"
    /\ IsConfirmed(probe[1].cand)
    /\ ~probe[1].beforeFailed /\ ~probe[1].afterFailed /\ ~probe[1].detailsFailed
    /\ probe[1].before_modals = 1
    /\ probe[1].after_modals = 1
    /\ probe[1].modal_details # <<>>

\* the dialog described after the click of the probed candidate has a close
\* button
DialogWithCloseButton(p) ==
    \E k \in 1..Len(p.modal_details) :
        p.modal_details[k].role = "dialog" /\ p.modal_details[k].hasCloseButton

(* C13: after the cleanup attempt that follows a confirmed popup whose      *)
(* dialog has a close button, zero modal-like nodes are visible (`modals`   *)
(* is what the next candidate's count before its click reads).               *)
C13_NoModalLeftAfterCleanup ==
    (/\ pc = "ba_popup_probed"
     /\ IsConfirmed(probe[1].cand)
     /\ probe[1].closeAttempted
     /\ DialogWithCloseButton(probe[1])) => modals = 0

(* C14: for every hover candidate on which the hover was attempted, the     *)
(* move of the pointer to (0, 0) is made before the loop goes on to the     *)
(* next candidate, whether the candidate was confirmed, rejected, or its    *)
(* probing threw.                                                            *)
C14_PointerResetAfterHover ==
    (pc = "ba_hover_probed" /\ probe[1].interacted) => probe[1].resetAttempted

\* the position in `doc` of the first element with locator x
FirstAt(doc, x) == CHOOSE i \in 1..Len(doc) : doc[i] = x /\ \A j \in 1..(i - 1) : doc[j] # x

\* `out` lists elements of `doc` earliest first, no locator twice
InDocumentOrder(doc, out) ==
    /\ \A i \in 1..Len(out) : \E j \in 1..Len(doc) : doc[j] = out[i]
    /\ \A i, j \in 1..Len(out) : i < j => FirstAt(doc, out[i]) < FirstAt(doc, out[j])

\* `out` is the longest such list within `cap`: no earlier element is left out
EarliestFirst(doc, out, cap) ==
    \A j \in 1..Len(doc) :
        (\A i \in 1..Len(out) : out[i] # doc[j]) =>
            /\ Len(out) = cap
            /\ FirstAt(doc, out[cap]) < j

(* C15: the static scan emits at most 50 hover candidates and at most 30    *)
(* popup candidates, earliest-matched-first in document order, and no two   *)
(* candidates of one pass have the same locator.                             *)
C15_StaticScanCapped ==
    /\ pc = "scan_popup" =>
           /\ Len(cands) <= 50
           /\ InDocumentOrder(site.doc, cands)
           /\ EarliestFirst(site.doc, cands, 50)
    /\ pc = "scan_done" =>
           /\ Len(cands) <= 30
           /\ InDocumentOrder(site.doc, cands)
           /\ EarliestFirst(site.doc, cands, 30)

\* a hover scan of 52 elements, two of the first 50 sharing a locator: 50
\* candidates, the last one being the 51st element
C15_Witness ==
    /\ pc = "scan_popup"
    /\ Len(site.doc) = 52
    /\ \E d \in 2..50 : site.doc[d] = site.doc[d - 1]
    /\ Len(cands) = 50
    /\ cands[50] = site.doc[51]

\* the positions inside analyze_popup_elements, where `confirmed` is its list
PopupPositions == {"ba_popup_loop", "ba_popup_probed", "ba_popup_return"}

\* `list` names candidates of the scan, each at most once, in scan order
InScanOrder(list) ==
    /\ \A i \in 1..Len(list) : \E j \in 1..Len(cands) : cands[j] = list[i].cand
    /\ \A i, j \in 1..Len(list) :
           i < j => FirstAt(cands, list[i].cand) < FirstAt(cands, list[j].cand)

\* a pass that interacts by `kind` with at most `maximum` candidates
PassBounded(kind, maximum) ==
    /\ Len(interactions) <= maximum
    /\ \A i \in 1..Len(interactions) : interactions[i].kind = kind
    /\ InScanOrder(interactions)
    /\ Len(confirmed) <= maximum
    /\ InScanOrder(confirmed)
    /\ \A i \in 1..Len(confirmed) :
           \E j \in 1..Len(interactions) : interactions[j].cand = confirmed[i].cand

(* C16: in one pass the triggering interaction (hover, click) is performed  *)
(* on at most the configured maximum of candidates, each at most once and   *)
(* in static-scan order; the confirmed lists never exceed the maximum, hold *)
(* only candidates that were interacted with, and keep scan order.          *)
C16_ProbesWithinMaximum ==
    /\ pc \in HoverPositions => PassBounded("hover", MAX_HOVER_ELEMENTS)
    /\ pc \in PopupPositions => PassBounded("click", MAX_POPUP_ELEMENTS)
    /\ Len(hoverFound) <= MAX_HOVER_ELEMENTS
    /\ Len(popupFound) <= MAX_POPUP_ELEMENTS
    /\ Len(OrEmpty(state.hover_elements)) <= MAX_HOVER_ELEMENTS
    /\ Len(OrEmpty(state.popup_elements)) <= MAX_POPUP_ELEMENTS

\* a scan of more candidates than the maximum: the pass returns after
\* hovering and confirming the first MAX_HOVER_ELEMENTS of them
C16_Witness ==
    /\ pc = "ba_hover_return"
    /\ site.nHover > MAX_HOVER_ELEMENTS
    /\ Len(interactions) = MAX_HOVER_ELEMENTS
    /\ Len(confirmed) = MAX_HOVER_ELEMENTS
    /\ confirmed[MAX_HOVER_ELEMENTS].cand = cands[MAX_HOVER_ELEMENTS]

\* the artifacts written for a category: files and feature records
ArtifactsOf(category) ==
    {f.content : f \in {g \in files : g.category = category}}
        \cup {features[i].feature_content :
                  i \in {j \in 1..Len(features) : features[j].feature_type = category}}

\* the step of `node` failed on its generator call
GeneratorFailedAt(node, prefix) ==
    \E i \in 1..Len(trace) :
        /\ trace[i].node = node
        /\ trace[i].failed
        /\ state.error_message = Prefixed(prefix, GeneratorError)

(* C17: if a generation step's generator call raises or returns empty       *)
(* content the run fails at that step: no artifact file or feature record   *)
(* is written for that category (so none ever holds empty content, and a    *)
(* raising generator leaves none at all) and the run never completes.       *)
C17_GeneratorFailureFailsRun ==
    /\ "" \notin ArtifactsOf("hover") \cup ArtifactsOf("popup")
    /\ GeneratorFailedAt("generate_hover_features", "Hover feature generation failed") =>
           ArtifactsOf("hover") = {} /\ state.status = "failed"
    /\ GeneratorFailedAt("generate_popup_features", "Popup feature generation failed") =>
           ArtifactsOf("popup") = {} /\ state.status = "failed"
    /\ state.status = "completed" =>
           /\ state.hover_features[1].content # ""
           /\ state.popup_features[1].content # ""

\* the feature record and the file of `category` hold `content`
FeaturePersisted(category, content) ==
    /\ \E i \in 1..Len(features) :
           /\ features[i].task_id = state.task_id
           /\ features[i].feature_type = category
           /\ features[i].feature_content = content
    /\ \E f \in files :
           f.category = category /\ f.content = content /\ f.run = state.task_id

\* the DOM analysis record of the run holds what discovery returned
AnalysisPersisted ==
    \E i \in 1..Len(domAnalysis) :
        /\ domAnalysis[i].task_id = state.task_id
        /\ domAnalysis[i].hover_elements = state.hover_elements[1]
        /\ domAnalysis[i].popup_elements = state.popup_elements[1]
        /\ domAnalysis[i].page_structure = state.page_structure[1]

(* C18: what the completed steps of a run persisted stays present and       *)
(* unchanged whatever fails afterwards: once browser_analysis has returned  *)
(* its result the DOM analysis record holds it, and once a generation step  *)
(* has returned its features the feature record and the file hold them, in  *)
(* every later state, the one in which the run terminates as failed         *)
(* included.                                                                 *)
C18_ArtifactsRetained ==
    /\ state.hover_elements # None => AnalysisPersisted
    /\ state.hover_features # None =>
           FeaturePersisted("hover", state.hover_features[1].content)
    /\ state.popup_features # None =>
           FeaturePersisted("popup", state.popup_features[1].content)

\* a run that terminated as failed in the popup step, through handle_error,
\* with the DOM analysis record and the hover feature record and file kept
C18_Witness ==
    /\ pc = "done"
    /\ state.status = "failed"
    /\ outcome = "exception"
    /\ Executed("handle_error")
    /\ state.hover_features # None
    /\ state.popup_features = None
    /\ AnalysisPersisted
    /\ FeaturePersisted("hover", state.hover_features[1].content)

\* the step of `node` returned a result with status failed
ReturnedFailed(node) ==
    \E i \in 1..Len(trace) : trace[i].node = node /\ trace[i].failed

(* C19: if a durable-store write issued by a step raises, the step is not   *)
(* complete: it returns a result with status failed, and the run terminates *)
(* as failed, never as completed.                                            *)
C19_StoreFailureFailsStep ==
    \A node \in storeRaised :
        /\ pc \notin WorkPositions => ReturnedFailed(node)
        /\ state.status # "completed"
        /\ outcome # "result"
        /\ pc = "done" => state.status = "failed"

TerminalEvents(id, type) ==
    {i \in 1..Len(sink) : sink[i].task_id = id /\ sink[i].type = type}

(* C21: a run's events reach the Progress Sink at most once: for one run    *)
(* identifier the sink is handed at most one 'complete' event and at most   *)
(* one 'error' event, and never both.                                        *)
C21_AtMostOneTerminalEvent ==
    \A id \in 1..MaxTasks :
        Cardinality(TerminalEvents(id, "complete") \cup TerminalEvents(id, "error")) <= 1

\* the static scans of the page yield no hover and no popup candidate
EmptyPage == site.nHover = 0 /\ site.nPopup = 0

\* what a failing collaborator call raises: store, browser, file system,
\* construction of the language-model provider
FailureCauses == {DbError, InitError, NavigationError, FileError, GeneratorError}

\* a call of a collaborator failed during the run
CollaboratorFailed ==
    \/ storeRaised # {}
    \/ /\ Len(state.error_message) = 2
       /\ <<state.error_message[2]>> \in FailureCauses

\* the run went through both generation steps on empty lists and completed
CompletedOnEmptyLists ==
    /\ state.hover_elements = Some(<<>>)
    /\ state.popup_elements = Some(<<>>)
    /\ Executed("generate_hover_features")
    /\ Executed("generate_popup_features")
    /\ state.status = "completed"
    /\ state.progress = 100
    /\ tasks[state.task_id].status = "completed"
    /\ tasks[state.task_id].progress = 100
    /\ outcome = "result"

(* C22: on a page whose static scans yield no hover and no popup candidate, *)
(* discovery returns an empty hover list and an empty popup list without    *)
(* error, and the run, once started, goes on through both generation steps  *)
(* and ends with status completed and progress 100, unless a call of a      *)
(* collaborator (store, browser, file system, provider) failed.              *)
C22_EmptyPageCompletes ==
    /\ []((EmptyPage /\ Executed("browser_analysis") /\ ~CollaboratorFailed) =>
              /\ state.status # "failed"
              /\ state.hover_elements = Some(<<>>)
              /\ state.popup_elements = Some(<<>>))
    /\ (EmptyPage /\ pc = "create_task") ~>
           (pc = "done" /\ (CompletedOnEmptyLists \/ CollaboratorFailed))

\* a completed run on an empty page: both artifacts are the generic one
C22_Witness ==
    /\ pc = "done"
    /\ EmptyPage
    /\ ~CollaboratorFailed
    /\ CompletedOnEmptyLists
    /\ ArtifactsOf("hover") = {GenericFeature("hover")}
    /\ ArtifactsOf("popup") = {GenericFeature("popup")}

\* the number of calls of the language model made for `category`
CallsFor(category) ==
    Cardinality({i \in 1..Len(calls) : calls[i] = LlmGenerate(category)})

\* the generation step of `category`, given `elements`, behaved as the
\* generator's contract says; `returned` is the features it returned, if any
GeneratorContract(category, elements, returned) ==
    /\ CallsFor(category) <= 1
    /\ OrEmpty(elements) = <<>> => CallsFor(category) = 0
    /\ returned # None =>
           IF OrEmpty(elements) = <<>>
           THEN returned[1].content = GenericFeature(category)
           ELSE CallsFor(category) = 1

(* C23: a generation step given an empty or unset element list never calls  *)
(* the language model and what it returns is the fixed generic artifact of  *)
(* its category; given a non-empty list it calls the language model exactly *)
(* once before it returns its features, and never more than once.           *)
C23_GenericWithoutModel ==
    /\ GeneratorContract("hover", state.hover_elements, state.hover_features)
    /\ GeneratorContract("popup", state.popup_elements, state.popup_features)

\* the hover step returned the generic artifact for an unset list without a
\* call, the popup step its features for a non-empty list after one call
C23_Witness ==
    /\ pc = "complete_task"
    /\ state.hover_elements = None
    /\ state.hover_features # None
    /\ state.hover_features[1].content = GenericFeature("hover")
    /\ state.popup_elements # None /\ state.popup_elements[1] # <<>>
    /\ state.popup_features # None
    /\ calls = <<LlmGenerate("popup")>>

\* the number of times `node` returned in the run
TimesExecuted(node) == Cardinality({i \in 1..Len(trace) : trace[i].node = node})

\* the nodes of the graph
Nodes == WorkSteps \cup {"complete_task", "handle_error"}

\* the number of page loads issued in the run
Navigations == Cardinality({i \in 1..Len(calls) : calls[i] = PageGoto})

\* the positions from the page-structure read to the end of the popup pass
AfterNavigation == {"ba_structure", "ba_hover_scan"} \cup HoverPositions
                       \cup {"ba_popup_scan"} \cup PopupPositions

StepBoundaries ==
    Nodes \cup {"wrapper_start", "END", "raised", "wrapper_finish"}

(* C25: a cancellation takes effect between two steps only: a cancelled run *)
(* was cancelled at a step boundary, and every step that wrote its start to *)
(* the store has returned.                                                   *)
C25_CancelOnlyBetweenSteps ==
    pc = "cancelled" =>
        /\ raised[2] \in StepBoundaries
        /\ (state.task_id # 0 /\ tasks[state.task_id].progress >= 10) =>
               Executed("browser_analysis")

(* C26: concurrent runs write different artifact files: every file of the   *)
(* output directory was written by one run only, so it still holds what     *)
(* that run wrote.                                                           *)
C26_ArtifactFilesNotShared ==
    \A f \in files : f.writers = {f.run}

\* the terminal statuses of the durable store
TerminalStatuses == {"completed", "failed"}

(* C27: once the stored status of a run is completed or failed, no step     *)
(* changes it: a run recorded as completed is never recorded as failed      *)
(* later, nor a failed one as anything else.                                 *)
C27_TerminalStatusIsFinal ==
    [][\A id \in 1..MaxTasks :
           tasks[id].status \in TerminalStatuses =>
               tasks'[id].status = tasks[id].status]_vars

(* C28: on an unchanged page, resolving the locator computed for a node     *)
(* gives that node, and no two nodes have the same locator.                 *)
C28_LocatorResolvesToNode ==
    /\ pc \in {"locate_again", "locate_popup", "locate_resolve", "locate_done"} =>
           \A n, m \in 1..Len(cands) : n # m => cands[n] # cands[m]
    /\ pc = "locate_done" => \A n \in 1..Len(confirmed) : confirmed[n] = n

HasPopupSignal(e) ==
    e.onclick \/ e.dataKeyword \/ e.aria # "absent" \/ e.callToAction

\* visible, with a text of 1 to 200 characters or an image/vector graphic
HasBasicCandidacy(e) ==
    /\ e.rendered
    /\ (e.textLength > 0 /\ e.textLength <= 200) \/ e.tag = "svg"

(* C30: the popup scan emits every node that is visible, has a non-empty    *)
(* text of at most 200 characters or is a graphic, and shows one of the     *)
(* four popup signals; and it emits no node without any of the signals.     *)
C30_PopupScanEmitsEveryTrigger ==
    pc = "filter_done" =>
        /\ (HasBasicCandidacy(site.element) /\ HasPopupSignal(site.element)) =>
               cands # <<>>
        /\ cands # <<>> => HasPopupSignal(site.element)

\* browser_analysis_subgraph goes from one of its parts to the next: the hover
\* pass starts when get_page_structure has returned, the popup pass when
\* analyze_hover_elements has returned
PartsInOrder ==
    /\ (pc' = "ba_hover_scan" /\ pc # "ba_hover_scan") =>
            pc = "ba_structure" /\ structure' # None
    /\ (pc' = "ba_popup_scan" /\ pc # "ba_popup_scan") =>
            pc = "ba_hover_return" /\ hoverFound' = confirmed

\* the page is closed when the row of dom_analysis is written and when a
\* generation step is about to run
SessionClosedFirst ==
    /\ domAnalysis' # domAnalysis => page' # "open"
    /\ pc' \in {"generate_hover_features", "generate_popup_features"} => page' # "open"

(* C31: discovery runs the page-structure summary, the hover pass and the   *)
(* popup pass in this order, each starting only after the previous one has  *)
(* returned, and the page is closed before the discovery result is          *)
(* persisted and before any generation step starts.                          *)
C31_DiscoveryOrderAndClose == [][PartsInOrder /\ SessionClosedFirst]_vars

\* the row of dom_analysis written for the run: what discovery produced
DiscoveryRows == {i \in 1..Len(domAnalysis) : domAnalysis[i].task_id = state.task_id}

\* the run state holds the discovery result `d`
StateHolds(d) ==
    /\ state.page_structure = Some(d.page_structure)
    /\ state.hover_elements = Some(d.hover_elements)
    /\ state.popup_elements = Some(d.popup_elements)

\* the result compiled at completion reports the discovery result `d`
ResultReports(d) ==
    state.result # None =>
        /\ state.result[1].analysis.page_structure = Some(d.page_structure)
        /\ state.result[1].analysis.hover_elements = d.hover_elements
        /\ state.result[1].analysis.popup_elements = d.popup_elements

(* C32: once browser_analysis has produced the discovery result, the run    *)
(* state keeps page_structure, hover_elements and popup_elements as         *)
(* discovery produced them through every later step, and the result         *)
(* compiled at completion contains exactly these lists.                      *)
C32_DiscoveryResultImmutable ==
    (\E i \in 1..Len(trace) : trace[i].node = "browser_analysis" /\ ~trace[i].failed) =>
        /\ DiscoveryRows # {}
        /\ \A i \in DiscoveryRows :
            StateHolds(domAnalysis[i]) /\ ResultReports(domAnalysis[i])

\* a completed run whose discovery confirmed a hover element
C32_Witness ==
    /\ pc = "done"
    /\ state.result # None
    /\ state.result[1].analysis.hover_elements # <<>>
    /\ Executed("generate_popup_features")

\* one of the four hover signals of an element
HasHoverSignal(e) ==
    \/ e.cursorPointer
    \/ e.hoverAttribute
    \/ \E i \in 1..Len(e.sheets) : e.sheets[i] \in {"hover_match", "throws_before_match"}
    \/ e.dropdownAt \in 1..3

\* the element on a page whose unreadable style sheets are left out
WithoutUnreadable(e) ==
    [e EXCEPT !.sheets = SelectSeq(e.sheets, LAMBDA s : s # "unreadable")]

(* C33: the hover static scan emits a node only if it is visible (non-zero  *)
(* box, not display:none, not visibility:hidden, not opacity 0), has a      *)
(* non-empty text of at most 200 characters or is an image, and shows one   *)
(* of the four hover signals; and a style sheet that cannot be read is      *)
(* skipped: the scan returns, and it emits the node exactly when it would   *)
(* on the page without the unreadable sheets.                                *)
C33_HoverScanEmitsOnlyCandidates ==
    pc = "filter_hover_done" =>
        /\ cands # <<>> =>
            /\ site.element.box /\ site.element.style = "shown"
            /\ \/ site.element.text > 0 /\ site.element.text <= 200
               \/ site.element.tag = "img"
            /\ HasHoverSignal(site.element)
        /\ (cands # <<>>) = HoverEmits(WithoutUnreadable(site.element))

\* a node emitted for the :hover rule of a sheet that follows an unreadable one
C33_Witness ==
    /\ pc = "filter_hover_done"
    /\ cands # <<>>
    /\ site.element.sheets = <<"unreadable", "hover_match">>
    /\ ~site.element.cursorPointer
    /\ ~site.element.hoverAttribute
    /\ site.element.dropdownAt = 0

\* the number of element nodes from the body's child down to node n
Depth(dom, n) == Cardinality(AncestorsOrSelf(dom, n))

\* the ancestor of node n (or n itself) that is k levels below the body
AncestorAt(dom, n, k) == CHOOSE a \in AncestorsOrSelf(dom, n) : Depth(dom, a) = k

\* the 1-based ordinal of node n among the siblings of its tag
Ordinal(dom, n) ==
    Cardinality({m \in 1..n : dom[m].parent = dom[n].parent /\ dom[m].tag = dom[n].tag})

\* the locators computed by the hover scan are in `cands`
LocatorsComputed == pc \in {"locate_again", "locate_popup", "locate_resolve", "locate_done"}

\* node n got the reference to its id, or a path of one step per ancestor
\* and for itself, each with the tag name and the ordinal, `first` being
\* what stands for the ordinal of the first node of a tag
LocatorShape(n, first) ==
    IF site.dom[n].id # "" THEN cands[n] = IdLocator(site.dom[n].id)
    ELSE /\ cands[n].kind = "path"
         /\ Len(cands[n].steps) = Depth(site.dom, n)
         /\ \A k \in 1..Depth(site.dom, n) :
                LET a == AncestorAt(site.dom, n, k)
                IN  /\ cands[n].steps[k].tag = site.dom[a].tag
                    /\ cands[n].steps[k].position =
                        IF Ordinal(site.dom, a) = 1 THEN first ELSE Ordinal(site.dom, a)

(* C34: the locator of a node without an id is a root-anchored path that    *)
(* records, for every ancestor and the node itself, the tag name together   *)
(* with its 1-based ordinal among the siblings of its tag; a node with an   *)
(* id gets the direct reference to the id instead.                           *)
C34_PathRecordsEveryOrdinal ==
    LocatorsComputed => \A n \in 1..Len(cands) : LocatorShape(n, 1)

(* C34 as amended: the path records for every ancestor and the node itself  *)
(* the tag name, and the 1-based ordinal among the siblings of its tag      *)
(* only when the node is not the first of them (position 0 stands for a    *)
(* step without an ordinal).                                                 *)
C34_PathRecordsOrdinalUnlessFirst ==
    LocatorsComputed => \A n \in 1..Len(cands) : LocatorShape(n, 0)

\* a page where a node without id, second of its tag below a parent that is
\* the first of its tag, got a path of two steps
C34_Witness ==
    /\ pc = "locate_done"
    /\ \E n \in 1..Len(cands) :
        /\ site.dom[n].id = ""
        /\ cands[n].kind = "path"
        /\ Len(cands[n].steps) = 2
        /\ cands[n].steps[1].position = 0
        /\ cands[n].steps[2].position = 2

\* a close attempt pressed Escape first, then clicked at most one element
EscapeThenAtMostOneClick(steps) ==
    /\ steps # <<>>
    /\ steps[1] = "press_escape"
    /\ Len(steps) <= 2
    /\ Len(steps) = 2 => steps[2] = "click"

(* C35: in the popup pass a close attempt is made after every confirmed     *)
(* candidate and after every candidate whose probing threw, before the      *)
(* next candidate is probed; the attempt presses Escape first, then clicks  *)
(* at most one close affordance, and never raises.                           *)
C35_CloseAttemptAfterProbe ==
    pc = "ba_popup_probed" =>
        /\ (IsConfirmed(probe[1].cand) \/ probe[1].threw) => probe[1].closeAttempted
        /\ probe[1].closeAttempted =>
            /\ EscapeThenAtMostOneClick(probe[1].closeSteps)
            /\ ~probe[1].closeRaised

\* a second candidate about to be probed after a first one whose click
\* threw and whose close attempt pressed Escape and clicked a close button
C35_Witness ==
    /\ pc = "ba_popup_probed"
    /\ idx = 1
    /\ Len(cands) > 1
    /\ probe[1].threw
    /\ probe[1].interacted
    /\ probe[1].closeSteps = <<"press_escape", "click">>

\* the rows of test_tasks that exist
TaskRecords == {i \in 1..MaxTasks : tasks[i].exists}

(* C36: for a run started through the generate endpoint, the identifier     *)
(* returned to the client is the one under which every status write and     *)
(* every Progress Sink event of the run is made: the run works on that      *)
(* task, one task record exists for the run, and that record is completed   *)
(* or failed when the run has ended.                                         *)
C36_RunUsesClientTaskId ==
    (mode = "api" /\ clientTaskId # 0) =>
        /\ state.task_id \in {0, clientTaskId}
        /\ \A i \in 1..Len(sink) : sink[i].task_id = clientTaskId
        /\ TaskRecords = {clientTaskId}
        /\ pc = "done" => tasks[clientTaskId].status \in {"completed", "failed"}

\* the message `msg` ends with the parts of `part` ("prefix: " + part)
ContainsMessage(msg, part) ==
    \E k \in 1..(Len(msg) + 1) : SubSeq(msg, k, Len(msg)) = part

(* C37: when a run has failed in a step, the error message raised to the    *)
(* caller of generate_tests and the error message last persisted for the    *)
(* run both contain the error message that step produced.                    *)
C37_FailureMessageReachesCaller ==
    (/\ outcome = "exception"
     /\ state.status = "failed"
     /\ state.error_message # None) =>
        /\ ContainsMessage(raised, state.error_message)
        /\ state.task_id # 0 =>
               tasks[state.task_id].error_message # None
               /\ ContainsMessage(tasks[state.task_id].error_message, state.error_message)

\* client c opened its websocket, has not disconnected, and no send to it failed
StillConnected(c) ==
    clients.socket[c].handler = "listening" /\ ~clients.socket[c].sendFailed

\* the messages sent for the task of client c since it connected
UpdatesSince(c) ==
    {i \in (clients.socket[c].since + 1)..Len(sink) :
        sink[i].task_id = clients.socket[c].task_id}

(* C38: a client connection registered for a run identifier stays           *)
(* registered and receives every update of that run until that same         *)
(* connection disconnects or a send to it fails, whatever other clients of  *)
(* the same run identifier do.                                               *)
C38_ConnectionStaysRegistered ==
    \A c \in 1..MaxClients :
        StillConnected(c) =>
            /\ clients.active_connections[clients.socket[c].task_id] = c
            /\ UpdatesSince(c) \subseteq clients.socket[c].received

\* the store's progress and current step of task id are the same after the step
KeepsProgressAndStep(id) ==
    /\ tasks'[id].progress = tasks[id].progress
    /\ tasks'[id].current_step = tasks[id].current_step

\* what one step does to the record of task id: an update that gives no
\* progress and step (status failed) leaves them, an update that gives no
\* error message (status running or completed) leaves the error message,
\* and the start timestamp is set only together with status running and
\* progress 0
UpdateKeepsFrame(id) ==
    /\ (tasks'[id] # tasks[id] /\ tasks'[id].status = "failed") => KeepsProgressAndStep(id)
    /\ (tasks'[id] # tasks[id] /\ tasks[id].exists /\ tasks'[id].status # "failed") =>
           tasks'[id].error_message = tasks[id].error_message
    /\ tasks'[id].started_at # tasks[id].started_at =>
           tasks'[id].status = "running" /\ tasks'[id].progress = 0

\* handle_error's write: status failed and the error message of the run
\* state, progress and current step as they were
HandleErrorWrite(id) ==
    (pc = "handle_error" /\ tasks'[id] # tasks[id]) =>
        /\ id = state.task_id
        /\ tasks'[id].status = "failed"
        /\ tasks'[id].error_message = state.error_message
        /\ KeepsProgressAndStep(id)

(* C39: a durable status update changes only the fields it is given (of     *)
(* status, progress, current step and error message): handle_error's write  *)
(* sets status failed and the error message and leaves the persisted        *)
(* progress and current step as the last step that wrote them left them,    *)
(* and the start timestamp is written only by the update with status        *)
(* running and progress 0.                                                   *)
C39_UpdateChangesOnlyGivenFields ==
    [][\A id \in 1..MaxTasks : UpdateKeepsFrame(id) /\ HandleErrorWrite(id)]_vars

\* handle_error has recorded a failed navigation: the record is failed with
\* the step's message and still shows the progress and step of the load
C39_Witness ==
    /\ pc = "END"
    /\ Executed("handle_error")
    /\ state.task_id # 0
    /\ tasks[state.task_id].status = "failed"
    /\ tasks[state.task_id].error_message = state.error_message
    /\ tasks[state.task_id].progress = 20
    /\ tasks[state.task_id].current_step = "Loading url"
    /\ tasks[state.task_id].started_at

\* the lines of a text; the empty text has none
LinesOf(content) == IF content = << <<>> >> THEN <<>> ELSE content

\* the first part of a line that is not a blank
FirstWord(line) == IF Strip(line) = <<>> THEN "" ELSE Strip(line)[1]

IsBlankLine(line) == Strip(line) = <<>>

\* no code fence, no Background heading, no user-story line; a blank line
\* only directly after a Feature line, and one after each Feature line
IsCleanText(lines) ==
    /\ \A i \in 1..Len(lines) :
        /\ \A k \in 1..Len(lines[i]) : lines[i][k] \notin {"[fence]gherkin", "[fence]"}
        /\ FirstWord(lines[i]) \notin {"Background:", "As a", "I want", "So that"}
        /\ IsBlankLine(lines[i]) => i > 1 /\ FirstWord(lines[i - 1]) = "Feature:"
        /\ FirstWord(lines[i]) = "Feature:" => i < Len(lines) /\ IsBlankLine(lines[i + 1])

(* C40: cleaning generated text is idempotent, and the cleaned text holds   *)
(* no markdown code fence, no Background section, no user-story line        *)
(* (starting 'As a', 'I want', 'So that') and no blank line other than the  *)
(* single one directly after each Feature line.                              *)
C40_CleaningIdempotentAndClean ==
    /\ pc \in {"clean_again", "clean_done"} => IsCleanText(LinesOf(cands))
    /\ pc = "clean_done" => confirmed = cands

\* a reply whose user-story line is hidden behind a code fence, between a
\* Feature line and a Scenario line, cleaned twice
C40_Witness ==
    /\ pc = "clean_done"
    /\ site.reply = <<<<"Feature:">>, <<"[fence]", "As a">>, <<" ", "Scenario:">>>>
    /\ cands = <<<<"Feature:">>, <<>>, <<" ", "Scenario:">>>>

====
